---- MODULE Spec2Model ----
(***************************************************************************)
(* libsimplenet async runtime core: the epoll event loop                   *)
(* (src/src/runtime/event_loop.cpp), the uring event loop                  *)
(* (src/src/runtime/uring_event_loop.cpp) and async_sleep, as state        *)
(* machines.  Results are errno values, 0 being ok().                      *)
(***************************************************************************)
EXTENDS Integers, Sequences, FiniteSets, TLC

\* ------------------------------------------------------------------ bounds
NFrames == 2        \* coroutine frames handed to spawn
NFds == 2           \* user descriptors 1..NFds
MaxTime == 2        \* steady_clock ticks (milliseconds) the clock may reach
MaxTimeout == 2     \* the longest timeout a caller passes
MaxOps == 2         \* suspension points one frame body goes through
MaxBatch == 2       \* readiness events one reactor wait returns
NSleepers == 2      \* tasks inside async_sleep at the same time
MaxSleep == 30      \* the longest duration passed to async_sleep (milliseconds)
ClockStep == 10     \* milliseconds between two readings of the clock
MaxSpurious == 1    \* reports of a descriptor with nothing to read or write
MaxBuf == 2         \* the longest buffer passed to a stream operation (bytes)
MaxStream == 3      \* bytes the peer sends in all
MaxSpace == 2       \* capacity of the socket's send buffer (bytes)
MaxIoTimeout == 30  \* the longest timeout passed to a timed stream operation
MaxFlushTimeout == 120 \* the longest timeout passed to flush or graceful_shutdown
MaxClock == 300     \* steady_clock stops here
MaxMark == 3        \* the largest watermark a queued_writer is built with
MaxFed == 3         \* bytes the caller gets accepted by enqueue in all
MaxRounds == 1      \* times run() is called again after it returned
NObjects == 3       \* unique_fd objects a program has at the same time
NDescriptors == 2   \* descriptors the program opens: 0..NDescriptors-1
MaxCloses == 2      \* calls of ::close counted per descriptor
TokenWidth == 3     \* bits of the poll token counter next_token_ (64 in the code)

\* ------------------------------------------------------- program constants
ok == 0
EBADF == 9
EBUSY == 16
EINVAL == 22
EDEADLK == 35
ETIMEDOUT == 110
ECANCELED == 125
nullopt == -1       \* an empty std::optional / a null coroutine handle's result
WakeFd == 0         \* the loop's eventfd
kSliceMs == 20      \* the longest timer slice of async_sleep
kIoSliceMs == 20    \* the longest wait slice of a timed read or write
kFlushSliceMs == 100 \* the longest write slice of queued_writer::flush
kResolvePollMs == 10 \* the sleep between two polls of async_resolve
ENOENT == 2
EEXIST == 17
EIO == 5            \* the errno of a failed recv or send
EAGAIN == 11        \* also EWOULDBLOCK
EPIPE == 32
ECONNRESET == 104

Fds == 1..NFds
TimerFd == NFds + 1 \* the thread-local timerfd of get_sleep_timerfd()
StreamFd == NFds    \* the descriptor of the task's tcp_stream
Handles == 1..NFrames
Objects == 1..NObjects
Descriptors == 0..(NDescriptors - 1)
Time == 0..MaxTime

kReadReadyMask == {"IN", "ERR", "HUP", "RDHUP"}
kWriteReadyMask == {"OUT", "ERR", "HUP"}
kCommonFlags == {"ET", "ERR", "HUP", "RDHUP"}
kReadPollMask == {"IN", "ERR", "HUP", "RDHUP"}
kWritePollMask == {"OUT", "ERR", "HUP"}

has_event(event_mask, flag) == (event_mask \cap flag) # {}

\* ----------------------------------------------------------------- helpers
Put(f, k, v) == [x \in (DOMAIN f) \cup {k} |-> IF x = k THEN v ELSE f[x]]
Erase(f, k) == [x \in (DOMAIN f) \ {k} |-> f[x]]
EmptyMap == [x \in {} |-> 0]
Min(a, b) == IF a < b THEN a ELSE b
Max(a, b) == IF a < b THEN b ELSE a
InSeq(s, x) == \E i \in 1..Len(s) : s[i] = x
Occurrences(s, x) == Cardinality({i \in 1..Len(s) : s[i] = x})
IndexOf(s, x) == CHOOSE i \in 1..Len(s) : s[i] = x /\ \A j \in 1..(i - 1) : s[j] # x
RemoveAll(s, S) == SelectSeq(s, LAMBDA x : x \notin S)
\* every order in which an unordered_map can hand out the keys in S
Orders(S) == {s \in [1..Cardinality(S) -> S] : \A i, j \in DOMAIN s : i # j => s[i] # s[j]}
\* sequences without repetition of at most n elements of S
Batches(S, n) == UNION {Orders(T) : T \in {U \in SUBSET S : Cardinality(U) <= n}}

Reg(h, d, te, tok) == [handle |-> h, deadline |-> d, timeout_error |-> te, token |-> tok]
wait_registration == Reg(0, nullopt, ETIMEDOUT, 0)
waiter_slot == [readable |-> wait_registration, writable |-> wait_registration,
                registered_mask |-> {}]
Ret(L, st) == [L |-> L, st |-> st]

\* ------------------------------------------------------- scheduler interface
\* a schedule that puts the frame at the front of the ready queue
schedule_at_front(L, handle) ==
    IF handle = 0 THEN L ELSE [L EXCEPT !.ready_queue = <<handle>> \o @]

schedule(L, handle) ==
    IF handle = 0 THEN L ELSE [L EXCEPT !.ready_queue = Append(@, handle)]

\* a completion callback that leaves the active task count alone
on_task_completed_keeps_count(L) == L

on_task_completed(L) ==
    IF L.active_task_count > 0 THEN [L EXCEPT !.active_task_count = @ - 1] ELSE L

\* a consume_wait_result that returns the outcome and leaves it in the map
consume_wait_result_keeps(L, handle) ==
    IF handle = 0 THEN Ret(L, EINVAL)
    ELSE IF handle \notin DOMAIN L.wait_results THEN Ret(L, ok)
    ELSE Ret(L, L.wait_results[handle])

consume_wait_result(L, handle) ==
    IF handle = 0 THEN Ret(L, EINVAL)
    ELSE IF handle \notin DOMAIN L.wait_results THEN Ret(L, ok)
    ELSE Ret([L EXCEPT !.wait_results = Erase(@, handle)], L.wait_results[handle])

spawn(L, handle) ==
    IF handle = 0 THEN L
    ELSE schedule([L EXCEPT !.active_task_count = @ + 1,
                            !.root_tasks = Append(@, handle)], handle)

cleanup_completed_roots(L, done) ==
    [L EXCEPT !.root_tasks = RemoveAll(@, done)]

\* ------------------------------------------------------------- epoll loop
DesiredMask(slot) ==
    IF slot.readable.handle # 0 \/ slot.writable.handle # 0
    THEN kCommonFlags \cup (IF slot.readable.handle # 0 THEN {"IN"} ELSE {})
                      \cup (IF slot.writable.handle # 0 THEN {"OUT"} ELSE {})
    ELSE {}

\* reactor::ctl: epoll_ctl on the kernel interest set.  EPOLL_CTL_ADD of a
\* descriptor already in the set fails with EEXIST, EPOLL_CTL_MOD of one
\* that is not in it with ENOENT; ENOENT of EPOLL_CTL_DEL counts as success
reactor_ctl(L, operation, fd, mask) ==
    IF fd \in L.bad_fds THEN Ret(L, EBADF)
    ELSE IF operation = "ADD"
    THEN IF fd \in DOMAIN L.interest THEN Ret(L, EEXIST)
         ELSE Ret([L EXCEPT !.interest = Put(@, fd, mask)], ok)
    ELSE IF operation = "MOD"
    THEN IF fd \notin DOMAIN L.interest THEN Ret(L, ENOENT)
         ELSE Ret([L EXCEPT !.interest = Put(@, fd, mask)], ok)
    ELSE Ret([L EXCEPT !.interest = Erase(@, fd)], ok)

\* a refresh_interest that replaces the kernel's entry only when the first
\* waiter comes or the last one goes
refresh_interest_without_modify(L, fd) ==
    LET slot == L.waiters[fd]
        desired_mask == DesiredMask(slot)
    IN  IF slot.registered_mask = desired_mask THEN Ret(L, ok)
        ELSE IF slot.registered_mask # {} /\ desired_mask # {}
        THEN Ret([L EXCEPT !.waiters[fd].registered_mask = desired_mask], ok)
        ELSE LET r == reactor_ctl(L, IF desired_mask = {} THEN "DEL" ELSE "ADD", fd,
                                  desired_mask)
             IN  IF r.st # ok THEN r
                 ELSE Ret([r.L EXCEPT !.waiters[fd].registered_mask = desired_mask], ok)

\* a refresh_interest that removes and adds again where the code modifies
refresh_interest_add_again(L, fd) ==
    LET slot == L.waiters[fd]
        desired_mask == DesiredMask(slot)
        r == reactor_ctl(L, IF desired_mask = {} THEN "DEL" ELSE "ADD", fd, desired_mask)
    IN  IF slot.registered_mask = desired_mask THEN Ret(L, ok)
        ELSE IF r.st # ok THEN r
        ELSE Ret([r.L EXCEPT !.waiters[fd].registered_mask = desired_mask], ok)

refresh_interest(L, fd) ==
    LET slot == L.waiters[fd]
        desired_mask == DesiredMask(slot)
        operation == IF slot.registered_mask = {} /\ desired_mask # {} THEN "ADD"
                     ELSE IF slot.registered_mask # {} /\ desired_mask = {} THEN "DEL"
                     ELSE "MOD"
    IN  IF slot.registered_mask = desired_mask THEN Ret(L, ok)
        ELSE LET r == reactor_ctl(L, operation, fd, desired_mask)
             IN  IF r.st # ok THEN r
                 ELSE Ret([r.L EXCEPT !.waiters[fd].registered_mask = desired_mask], ok)

\* an install that leaves next_deadline and the dirty flag as they were
EventLoopInstallKeepsDeadline(L, now, fd, handle, readable, timeout, timeout_error) ==
    LET slot0 == IF fd \in DOMAIN L.waiters THEN L.waiters[fd] ELSE waiter_slot
        deadline == IF timeout # nullopt THEN now + timeout ELSE nullopt
        reg == Reg(handle, deadline, timeout_error, 0)
        slot1 == IF readable THEN [slot0 EXCEPT !.readable = reg]
                 ELSE [slot0 EXCEPT !.writable = reg]
    IN  [L EXCEPT !.waiters = Put(@, fd, slot1),
                  !.timed_waiter_count = IF timeout # nullopt THEN @ + 1 ELSE @,
                  !.next_deadline =
                      IF timeout # nullopt /\ @ = nullopt THEN deadline ELSE @,
                  !.pending_waiter_count = @ + 1]

EventLoopInstall(L, now, fd, handle, readable, timeout, timeout_error) ==
    LET slot0 == IF fd \in DOMAIN L.waiters THEN L.waiters[fd] ELSE waiter_slot
        deadline == IF timeout # nullopt THEN now + timeout ELSE nullopt
        reg == Reg(handle, deadline, timeout_error, 0)
        slot1 == IF readable THEN [slot0 EXCEPT !.readable = reg]
                 ELSE [slot0 EXCEPT !.writable = reg]
    IN  [L EXCEPT !.waiters = Put(@, fd, slot1),
                  !.timed_waiter_count = IF timeout # nullopt THEN @ + 1 ELSE @,
                  !.next_deadline =
                      IF timeout # nullopt /\ (@ = nullopt \/ deadline < @)
                      THEN deadline ELSE @,
                  !.deadline_index_dirty = TRUE,
                  !.pending_waiter_count = @ + 1]

\* a rollback that leaves the slot in the map when it has become empty
EventLoopRollbackKeepsSlot(L, fd, readable) ==
    LET target == IF readable THEN L.waiters[fd].readable ELSE L.waiters[fd].writable
        slot1 == IF readable THEN [L.waiters[fd] EXCEPT !.readable = wait_registration]
                 ELSE [L.waiters[fd] EXCEPT !.writable = wait_registration]
    IN  [L EXCEPT !.timed_waiter_count =
                      IF target.deadline # nullopt /\ @ > 0 THEN @ - 1 ELSE @,
                  !.deadline_index_dirty = TRUE,
                  !.pending_waiter_count = IF @ > 0 THEN @ - 1 ELSE @,
                  !.waiters = Put(@, fd, slot1)]

EventLoopRollback(L, fd, readable) ==
    LET target == IF readable THEN L.waiters[fd].readable ELSE L.waiters[fd].writable
        slot1 == IF readable THEN [L.waiters[fd] EXCEPT !.readable = wait_registration]
                 ELSE [L.waiters[fd] EXCEPT !.writable = wait_registration]
        empty == slot1.readable.handle = 0 /\ slot1.writable.handle = 0
    IN  [L EXCEPT !.timed_waiter_count =
                      IF target.deadline # nullopt /\ @ > 0 THEN @ - 1 ELSE @,
                  !.deadline_index_dirty = TRUE,
                  !.pending_waiter_count = IF @ > 0 THEN @ - 1 ELSE @,
                  !.waiters = IF empty THEN Erase(@, fd) ELSE Put(@, fd, slot1)]

\* an arm_waiter without the test for an existing registration
event_loop_arm_waiter_overwrites(L, now, fd, handle, readable, timeout, timeout_error) ==
    IF fd < 0 \/ handle = 0 THEN Ret(L, EBADF)
    ELSE IF timeout # nullopt /\ timeout <= 0
    THEN Ret(schedule([L EXCEPT !.wait_results = Put(@, handle, timeout_error)],
                      handle), ok)
    ELSE LET L1 == EventLoopInstall(L, now, fd, handle, readable, timeout, timeout_error)
             r == refresh_interest(L1, fd)
         IN  IF r.st # ok THEN Ret(EventLoopRollback(L1, fd, readable), r.st)
             ELSE Ret(r.L, ok)

\* an arm_waiter that tests for an existing registration before the timeout
event_loop_arm_waiter_busy_first(L, now, fd, handle, readable, timeout, timeout_error) ==
    IF fd < 0 \/ handle = 0 THEN Ret(L, EBADF)
    ELSE IF fd \in DOMAIN L.waiters
            /\ (IF readable THEN L.waiters[fd].readable.handle
                ELSE L.waiters[fd].writable.handle) # 0
    THEN Ret(L, EBUSY)
    ELSE IF timeout # nullopt /\ timeout <= 0
    THEN Ret(schedule([L EXCEPT !.wait_results = Put(@, handle, timeout_error)],
                      handle), ok)
    ELSE LET L1 == EventLoopInstall(L, now, fd, handle, readable, timeout, timeout_error)
             r == refresh_interest(L1, fd)
         IN  IF r.st # ok THEN Ret(EventLoopRollback(L1, fd, readable), r.st)
             ELSE Ret(r.L, ok)

event_loop_arm_waiter(L, now, fd, handle, readable, timeout, timeout_error) ==
    IF fd < 0 \/ handle = 0 THEN Ret(L, EBADF)
    ELSE IF timeout # nullopt /\ timeout <= 0
    THEN Ret(schedule([L EXCEPT !.wait_results = Put(@, handle, timeout_error)],
                      handle), ok)
    ELSE IF fd \in DOMAIN L.waiters
            /\ (IF readable THEN L.waiters[fd].readable.handle
                ELSE L.waiters[fd].writable.handle) # 0
    THEN Ret(L, EBUSY)
    ELSE LET L1 == EventLoopInstall(L, now, fd, handle, readable, timeout, timeout_error)
             r == refresh_interest(L1, fd)
         IN  IF r.st # ok THEN Ret(EventLoopRollback(L1, fd, readable), r.st)
             ELSE Ret(r.L, ok)

\* next_deadline = std::min(next_deadline, d), with has_next_deadline
MinDeadline(acc, d) ==
    [acc EXCEPT !.next_deadline = IF acc.has_next_deadline THEN Min(@, d) ELSE d,
                !.has_next_deadline = TRUE]

Expired(reg, now) == reg.handle # 0 /\ reg.deadline # nullopt /\ now >= reg.deadline

\* an expiry branch that delivers the default timeout error
ExpireRegistrationDefaultError(L, fd, readable) ==
    LET reg == IF readable THEN L.waiters[fd].readable ELSE L.waiters[fd].writable
        L1 == schedule([L EXCEPT !.wait_results = Put(@, reg.handle, ETIMEDOUT)],
                       reg.handle)
    IN  [L1 EXCEPT !.timed_waiter_count = IF @ > 0 THEN @ - 1 ELSE @,
                   !.waiters[fd] = IF readable THEN [@ EXCEPT !.readable = wait_registration]
                                   ELSE [@ EXCEPT !.writable = wait_registration],
                   !.pending_waiter_count = IF @ > 0 THEN @ - 1 ELSE @]

\* the body of an expiry branch: deliver the registration's own timeout error,
\* schedule the frame, clear the registration, decrement the counters
ExpireRegistration(L, fd, readable) ==
    LET reg == IF readable THEN L.waiters[fd].readable ELSE L.waiters[fd].writable
        L1 == schedule([L EXCEPT !.wait_results = Put(@, reg.handle, reg.timeout_error)],
                       reg.handle)
    IN  [L1 EXCEPT !.timed_waiter_count = IF @ > 0 THEN @ - 1 ELSE @,
                   !.waiters[fd] = IF readable THEN [@ EXCEPT !.readable = wait_registration]
                                   ELSE [@ EXCEPT !.writable = wait_registration],
                   !.pending_waiter_count = IF @ > 0 THEN @ - 1 ELSE @]

\* one pass of the for loop over waiters_ (event_loop.cpp 329-390)
EventLoopSweepSlot(acc, now, fd) ==
    IF acc.returned THEN acc
    ELSE
    LET L == acc.L
        rexp == Expired(L.waiters[fd].readable, now)
        L1 == IF rexp THEN ExpireRegistration(L, fd, TRUE) ELSE L
        wexp == Expired(L1.waiters[fd].writable, now)
        L2 == IF wexp THEN ExpireRegistration(L1, fd, FALSE) ELSE L1
        r == IF rexp \/ wexp THEN refresh_interest(L2, fd) ELSE Ret(L2, ok)
        slot == r.L.waiters[fd]
        a1 == IF slot.readable.handle # 0 /\ slot.readable.deadline # nullopt
              THEN MinDeadline(acc, slot.readable.deadline) ELSE acc
        a2 == IF slot.writable.handle # 0 /\ slot.writable.deadline # nullopt
              THEN MinDeadline(a1, slot.writable.deadline) ELSE a1
    IN  IF r.st # ok
        THEN [acc EXCEPT !.L = [L2 EXCEPT !.loop_error = r.st, !.stop_requested = TRUE],
                         !.returned = TRUE]
        ELSE IF slot.readable.handle = 0 /\ slot.writable.handle = 0
        THEN [acc EXCEPT !.L = [r.L EXCEPT !.waiters = Erase(@, fd)]]
        ELSE [a2 EXCEPT !.L = r.L]

RECURSIVE EventLoopSweep(_, _, _)
EventLoopSweep(acc, now, order) ==
    IF order = <<>> THEN acc
    ELSE EventLoopSweep(EventLoopSweepSlot(acc, now, Head(order)), now, Tail(order))

SweepStart(L) == [L |-> L, next_deadline |-> nullopt, has_next_deadline |-> FALSE,
                  returned |-> FALSE]

SweepFinish(acc) ==
    IF acc.returned THEN acc.L
    ELSE [acc.L EXCEPT !.next_deadline =
                           IF acc.has_next_deadline THEN acc.next_deadline ELSE nullopt,
                       !.deadline_index_dirty = FALSE]

\* order: the order in which the unordered_map hands out its slots
event_loop_process_expired_waiters(L, now, order) ==
    IF L.timed_waiter_count = 0
    THEN [L EXCEPT !.next_deadline = nullopt, !.deadline_index_dirty = FALSE]
    ELSE IF ~L.deadline_index_dirty /\ L.next_deadline # nullopt /\ now < L.next_deadline
    THEN L
    ELSE SweepFinish(EventLoopSweep(SweepStart(L), now, order))

consume_wakeup(L) == [L EXCEPT !.wake_count = 0]

\* deliver a readiness outcome to one registration and clear it
ResolveRegistration(L, fd, readable, status) ==
    LET reg == IF readable THEN L.waiters[fd].readable ELSE L.waiters[fd].writable
        timed == reg.deadline # nullopt /\ L.timed_waiter_count > 0
        L1 == schedule([L EXCEPT !.wait_results = Put(@, reg.handle, status)], reg.handle)
    IN  [L1 EXCEPT !.timed_waiter_count = IF timed THEN @ - 1 ELSE @,
                   !.deadline_index_dirty = IF timed THEN TRUE ELSE @,
                   !.waiters[fd] = IF readable THEN [@ EXCEPT !.readable = wait_registration]
                                   ELSE [@ EXCEPT !.writable = wait_registration],
                   !.pending_waiter_count = IF @ > 0 THEN @ - 1 ELSE @]

\* a dispatch that resolves both directions on any event for the fd,
\* whatever its mask
process_ready_event_any_mask(L, event) ==
    IF event.fd = WakeFd THEN consume_wakeup(L)
    ELSE IF event.fd \notin DOMAIN L.waiters THEN L
    ELSE
    LET fd == event.fd
        L1 == IF L.waiters[fd].readable.handle # 0
              THEN ResolveRegistration(L, fd, TRUE, ok) ELSE L
        L2 == IF L1.waiters[fd].writable.handle # 0
              THEN ResolveRegistration(L1, fd, FALSE, ok) ELSE L1
        r == refresh_interest(L2, fd)
    IN  IF r.st # ok THEN [L2 EXCEPT !.loop_error = r.st, !.stop_requested = TRUE]
        ELSE IF r.L.waiters[fd].readable.handle = 0 /\ r.L.waiters[fd].writable.handle = 0
        THEN [r.L EXCEPT !.waiters = Erase(@, fd)]
        ELSE r.L

\* a dispatch that drops the error of refresh_interest
process_ready_event_unlatched(L, event) ==
    IF event.fd = WakeFd THEN consume_wakeup(L)
    ELSE IF event.fd \notin DOMAIN L.waiters THEN L
    ELSE
    LET fd == event.fd
        L1 == IF L.waiters[fd].readable.handle # 0 /\ has_event(event.events, kReadReadyMask)
              THEN ResolveRegistration(L, fd, TRUE, ok) ELSE L
        L2 == IF L1.waiters[fd].writable.handle # 0 /\ has_event(event.events, kWriteReadyMask)
              THEN ResolveRegistration(L1, fd, FALSE, ok) ELSE L1
        r == refresh_interest(L2, fd)
    IN  IF r.st # ok THEN L2
        ELSE IF r.L.waiters[fd].readable.handle = 0 /\ r.L.waiters[fd].writable.handle = 0
        THEN [r.L EXCEPT !.waiters = Erase(@, fd)]
        ELSE r.L

process_ready_event(L, event) ==
    IF event.fd = WakeFd THEN consume_wakeup(L)
    ELSE IF event.fd \notin DOMAIN L.waiters THEN L
    ELSE
    LET fd == event.fd
        L1 == IF L.waiters[fd].readable.handle # 0 /\ has_event(event.events, kReadReadyMask)
              THEN ResolveRegistration(L, fd, TRUE, ok) ELSE L
        L2 == IF L1.waiters[fd].writable.handle # 0 /\ has_event(event.events, kWriteReadyMask)
              THEN ResolveRegistration(L1, fd, FALSE, ok) ELSE L1
        r == refresh_interest(L2, fd)
    IN  IF r.st # ok THEN [L2 EXCEPT !.loop_error = r.st, !.stop_requested = TRUE]
        ELSE IF r.L.waiters[fd].readable.handle = 0 /\ r.L.waiters[fd].writable.handle = 0
        THEN [r.L EXCEPT !.waiters = Erase(@, fd)]
        ELSE r.L

\* the for loop over the events the reactor returned (event_loop.cpp 128-133)
RECURSIVE EventLoopDispatch(_, _)
EventLoopDispatch(L, events) ==
    IF events = <<>> \/ L.loop_error # 0 THEN L
    ELSE EventLoopDispatch(process_ready_event(L, Head(events)), Tail(events))

\* ------------------------------------------------------------- uring loop
\* ++next_token_ on an unsigned counter of TokenWidth bits, 0 skipped
NextToken(n) == IF (n + 1) % (2 ^ TokenWidth) = 0 THEN 1 ELSE (n + 1) % (2 ^ TokenWidth)

RECURSIVE allocate_token(_)
allocate_token(L) ==
    LET token == L.next_token
        L1 == [L EXCEPT !.next_token = NextToken(@)]
    IN  IF token = 0 \/ token \in DOMAIN L.inflight_polls THEN allocate_token(L1)
        ELSE [L |-> L1, token |-> token]

\* reactor_.submit_poll_add: one more entry in the submission queue.  With
\* ring_error set the ring is out of order: io_uring_get_sqe hands out no
\* entry (EBUSY) and io_uring_submit fails with that errno, so the flush
\* made on EBUSY fails, or, with nothing pending, the retry is EBUSY again
queue_poll_add(L, token, fd, poll_mask) ==
    IF L.ring_error # 0
    THEN Ret(L, IF L.submission_pending THEN L.ring_error ELSE EBUSY)
    ELSE
    Ret([L EXCEPT !.sq = Append(@, [op |-> "add", token |-> token, fd |-> fd,
                                     mask |-> poll_mask]),
                  !.submission_pending = TRUE], ok)

queue_poll_remove(L, token) ==
    IF token = 0 THEN Ret(L, ok)
    ELSE IF L.ring_error # 0
    THEN Ret(L, IF L.submission_pending THEN L.ring_error ELSE EBUSY)
    ELSE Ret([L EXCEPT !.sq = Append(@, [op |-> "remove", token |-> token, fd |-> 0,
                                          mask |-> {}]),
                       !.submission_pending = TRUE], ok)

\* the kernel taking one submission: a poll-add arms a one-shot poll, a
\* poll-remove cancels the poll of that token (which completes -ECANCELED)
\* and completes itself under user_data 0
KernelSubmit(L, sqe) ==
    IF sqe.op = "add"
    THEN [L EXCEPT !.polls = @ \cup {[token |-> sqe.token, fd |-> sqe.fd, mask |-> sqe.mask]}]
    ELSE LET hit == {p \in L.polls : p.token = sqe.token}
         IN  IF hit = {} THEN [L EXCEPT !.cq = Append(@, [user_data |-> 0, result |-> -2])]
             ELSE [L EXCEPT !.polls = @ \ hit,
                            !.cq = @ \o <<[user_data |-> sqe.token, result |-> -ECANCELED],
                                          [user_data |-> 0, result |-> 0]>>]

RECURSIVE KernelSubmitAll(_, _)
KernelSubmitAll(L, sq) ==
    IF sq = <<>> THEN L ELSE KernelSubmitAll(KernelSubmit(L, Head(sq)), Tail(sq))

flush_submissions(L) ==
    IF ~L.submission_pending THEN Ret(L, ok)
    ELSE IF L.ring_error # 0 THEN Ret(L, L.ring_error)
    ELSE Ret([KernelSubmitAll([L EXCEPT !.sq = <<>>], L.sq)
                 EXCEPT !.submission_pending = FALSE], ok)

UringInstall(L, now, fd, handle, readable, timeout, timeout_error, token) ==
    LET slot0 == IF fd \in DOMAIN L.waiters THEN L.waiters[fd] ELSE waiter_slot
        deadline == IF timeout # nullopt THEN now + timeout ELSE nullopt
        reg == Reg(handle, deadline, timeout_error, token)
        slot1 == IF readable THEN [slot0 EXCEPT !.readable = reg]
                 ELSE [slot0 EXCEPT !.writable = reg]
    IN  [L EXCEPT !.waiters = Put(@, fd, slot1),
                  !.timed_waiter_count = IF timeout # nullopt THEN @ + 1 ELSE @,
                  !.next_deadline =
                      IF timeout # nullopt /\ (@ = nullopt \/ deadline < @)
                      THEN deadline ELSE @,
                  !.deadline_index_dirty = TRUE,
                  !.pending_waiter_count = @ + 1,
                  !.inflight_polls = Put(@, token, [fd |-> fd, readable |-> readable])]

UringRollback(L, fd, readable, token) ==
    [EventLoopRollback(L, fd, readable) EXCEPT !.inflight_polls = Erase(@, token)]

\* an arm_waiter of the uring loop without the test for an existing
\* registration
uring_arm_waiter_overwrites(L, now, fd, handle, readable, timeout, timeout_error) ==
    IF fd < 0 \/ handle = 0 THEN Ret(L, EBADF)
    ELSE IF timeout # nullopt /\ timeout <= 0
    THEN Ret(schedule([L EXCEPT !.wait_results = Put(@, handle, timeout_error)],
                      handle), ok)
    ELSE LET a == allocate_token(L)
             L1 == UringInstall(a.L, now, fd, handle, readable, timeout, timeout_error,
                                a.token)
             r == queue_poll_add(L1, a.token, fd,
                                 IF readable THEN kReadPollMask ELSE kWritePollMask)
         IN  IF r.st # ok THEN Ret(UringRollback(L1, fd, readable, a.token), r.st)
             ELSE Ret(r.L, ok)

uring_arm_waiter(L, now, fd, handle, readable, timeout, timeout_error) ==
    IF fd < 0 \/ handle = 0 THEN Ret(L, EBADF)
    ELSE IF timeout # nullopt /\ timeout <= 0
    THEN Ret(schedule([L EXCEPT !.wait_results = Put(@, handle, timeout_error)],
                      handle), ok)
    ELSE IF fd \in DOMAIN L.waiters
            /\ (IF readable THEN L.waiters[fd].readable.handle
                ELSE L.waiters[fd].writable.handle) # 0
    THEN Ret(L, EBUSY)
    ELSE LET a == allocate_token(L)
             L1 == UringInstall(a.L, now, fd, handle, readable, timeout, timeout_error,
                                a.token)
             r == queue_poll_add(L1, a.token, fd,
                                 IF readable THEN kReadPollMask ELSE kWritePollMask)
         IN  IF r.st # ok THEN Ret(UringRollback(L1, fd, readable, a.token), r.st)
             ELSE Ret(r.L, ok)

\* an expiry that leaves the in-flight entry of the expired poll in the map
expire_registration_keeps_inflight(acc, now, fd, readable) ==
    LET L == acc.L
        reg == IF readable THEN L.waiters[fd].readable ELSE L.waiters[fd].writable
    IN  IF ~Expired(reg, now)
        THEN IF reg.handle # 0 /\ reg.deadline # nullopt
             THEN MinDeadline(acc, reg.deadline) ELSE acc
        ELSE LET L1 == ExpireRegistration(L, fd, readable)
                 r == queue_poll_remove(L1, reg.token)
             IN  IF reg.token = 0 THEN [acc EXCEPT !.L = L1]
                 ELSE IF r.st # ok
                 THEN [acc EXCEPT !.L = [L1 EXCEPT !.loop_error = r.st,
                                                   !.stop_requested = TRUE]]
                 ELSE [acc EXCEPT !.L = r.L]

\* the expire_registration lambda (uring_event_loop.cpp 368-401)
expire_registration(acc, now, fd, readable) ==
    LET L == acc.L
        reg == IF readable THEN L.waiters[fd].readable ELSE L.waiters[fd].writable
    IN  IF ~Expired(reg, now)
        THEN IF reg.handle # 0 /\ reg.deadline # nullopt
             THEN MinDeadline(acc, reg.deadline) ELSE acc
        ELSE LET L1 == ExpireRegistration(L, fd, readable)
                 L2 == [L1 EXCEPT !.inflight_polls = Erase(@, reg.token)]
                 r == queue_poll_remove(L2, reg.token)
             IN  IF reg.token = 0 THEN [acc EXCEPT !.L = L1]
                 ELSE IF r.st # ok
                 THEN [acc EXCEPT !.L = [L2 EXCEPT !.loop_error = r.st,
                                                   !.stop_requested = TRUE]]
                 ELSE [acc EXCEPT !.L = r.L]

UringSweepSlot(acc, now, fd) ==
    IF acc.returned THEN acc
    ELSE
    LET a1 == expire_registration(acc, now, fd, TRUE)
        a2 == expire_registration(a1, now, fd, FALSE)
    IN  IF a1.L.loop_error # 0 THEN [a1 EXCEPT !.returned = TRUE]
        ELSE IF a2.L.loop_error # 0 THEN [a2 EXCEPT !.returned = TRUE]
        ELSE IF a2.L.waiters[fd].readable.handle = 0 /\ a2.L.waiters[fd].writable.handle = 0
        THEN [a2 EXCEPT !.L = [a2.L EXCEPT !.waiters = Erase(@, fd)]]
        ELSE a2

RECURSIVE UringSweep(_, _, _)
UringSweep(acc, now, order) ==
    IF order = <<>> THEN acc
    ELSE UringSweep(UringSweepSlot(acc, now, Head(order)), now, Tail(order))

uring_process_expired_waiters(L, now, order) ==
    IF L.timed_waiter_count = 0
    THEN [L EXCEPT !.next_deadline = nullopt, !.deadline_index_dirty = FALSE]
    ELSE IF ~L.deadline_index_dirty /\ L.next_deadline # nullopt /\ now < L.next_deadline
    THEN L
    ELSE SweepFinish(UringSweep(SweepStart(L), now, order))

\* a dispatch that resolves the registration of the in-flight entry whatever
\* token it stores
process_completion_any_token(L, completion) ==
    LET token == completion.user_data
    IN  IF token = 0 THEN L
        ELSE IF token = L.wake_token
        THEN LET L1 == consume_wakeup(L)
             IN  IF ~L1.stop_requested
                 THEN LET rearm == queue_poll_add(L1, L1.wake_token, WakeFd, kReadPollMask)
                          fl == flush_submissions(rearm.L)
                      IN  IF rearm.st # ok
                          THEN [L1 EXCEPT !.loop_error = rearm.st, !.stop_requested = TRUE]
                          ELSE IF fl.st # ok
                          THEN [rearm.L EXCEPT !.loop_error = fl.st,
                                               !.stop_requested = TRUE]
                          ELSE fl.L
                 ELSE L1
        ELSE IF token \notin DOMAIN L.inflight_polls THEN L
        ELSE LET context == L.inflight_polls[token]
                 L1 == [L EXCEPT !.inflight_polls = Erase(@, token)]
             IN  IF context.fd \notin DOMAIN L1.waiters THEN L1
                 ELSE LET slot == L1.waiters[context.fd]
                          registration == IF context.readable THEN slot.readable
                                          ELSE slot.writable
                          status == IF completion.result >= 0 THEN ok
                                    ELSE -completion.result
                          L2 == ResolveRegistration(L1, context.fd, context.readable, status)
                      IN  IF registration.handle = 0 THEN L1
                          ELSE IF L2.waiters[context.fd].readable.handle = 0
                                  /\ L2.waiters[context.fd].writable.handle = 0
                          THEN [L2 EXCEPT !.waiters = Erase(@, context.fd)]
                          ELSE L2

process_completion(L, completion) ==
    LET token == completion.user_data
    IN  IF token = 0 THEN L
        ELSE IF token = L.wake_token
        THEN LET L1 == consume_wakeup(L)
             IN  IF ~L1.stop_requested
                 THEN LET rearm == queue_poll_add(L1, L1.wake_token, WakeFd, kReadPollMask)
                          fl == flush_submissions(rearm.L)
                      IN  IF rearm.st # ok
                          THEN [L1 EXCEPT !.loop_error = rearm.st, !.stop_requested = TRUE]
                          ELSE IF fl.st # ok
                          THEN [rearm.L EXCEPT !.loop_error = fl.st,
                                               !.stop_requested = TRUE]
                          ELSE fl.L
                 ELSE L1
        ELSE IF token \notin DOMAIN L.inflight_polls THEN L
        ELSE LET context == L.inflight_polls[token]
                 L1 == [L EXCEPT !.inflight_polls = Erase(@, token)]
             IN  IF context.fd \notin DOMAIN L1.waiters THEN L1
                 ELSE LET slot == L1.waiters[context.fd]
                          registration == IF context.readable THEN slot.readable
                                          ELSE slot.writable
                          status == IF completion.result >= 0 THEN ok
                                    ELSE -completion.result
                          L2 == ResolveRegistration(L1, context.fd, context.readable, status)
                      IN  IF registration.handle = 0 \/ registration.token # token THEN L1
                          ELSE IF L2.waiters[context.fd].readable.handle = 0
                                  /\ L2.waiters[context.fd].writable.handle = 0
                          THEN [L2 EXCEPT !.waiters = Erase(@, context.fd)]
                          ELSE L2

RECURSIVE UringDispatch(_, _)
UringDispatch(L, completions) ==
    IF completions = <<>> \/ L.loop_error # 0 THEN L
    ELSE UringDispatch(process_completion(L, Head(completions)), Tail(completions))

\* ------------------------------------------------------- backend selection
arm_waiter(L, now, fd, handle, readable, timeout, timeout_error) ==
    IF L.backend = "epoll"
    THEN event_loop_arm_waiter(L, now, fd, handle, readable, timeout, timeout_error)
    ELSE uring_arm_waiter(L, now, fd, handle, readable, timeout, timeout_error)

process_expired_waiters(L, now, order) ==
    IF L.backend = "epoll" THEN event_loop_process_expired_waiters(L, now, order)
    ELSE uring_process_expired_waiters(L, now, order)

\* =================================================================== state
VARIABLES
    loop,        \* the event loop object and the kernel objects it drives
    frame,       \* per coroutine handle: where its body stands
    pc,          \* where run() stands: idle, enter, top, drain, resume, wait, exit,
                 \* returned
    run_result,  \* what run() returned (nullopt before it returns)
    wait_until,  \* the time the blocked reactor wait times out (nullopt: never)
    events,      \* the batch the last reactor wait stored in its output array
    stop_pc,     \* where the thread calling stop() stands
    front,       \* the handle run() popped and is about to resume (0: none)
    now,         \* steady_clock
    sleeper,     \* per async_sleep task: its coroutine state and cancel token
    timerfd,     \* the thread's sleep timer: its expiry time (nullopt: disarmed)
    spurious,    \* how often a descriptor was reported with nothing to read or write
    co,          \* the task doing stream I/O: its chain of coroutine frames
    sock,        \* the kernel side of the task's stream socket
    qw,          \* the queued_writer object
    rs,          \* the resolver worker, its job queue and the job's resolve_state
    ufd,         \* the unique_fd objects of a program and the descriptors they name
    twin,        \* a uring_event_loop given the same program and the same events
    tk           \* coroutine frames of task<T>, their promises and live awaiters

vars == <<loop, frame, pc, run_result, wait_until, events, stop_pc, front, now,
          sleeper, timerfd, spurious, co, sock, qw, rs, ufd, twin, tk>>

\* timeouts and timeout errors a caller of the scheduler interface passes
Timeouts == {nullopt} \cup (0..MaxTimeout)
\* the first frame waits with the default timeout error, the others pass
\* operation_canceled as wait_readable_for's callers may
TimeoutErrorOf(h) == IF h = 1 THEN ETIMEDOUT ELSE ECANCELED
\* revents the kernel reports (ERR stands for ERR and HUP, which the loops treat alike)
EventMasks == {{"IN"}, {"OUT"}, {"ERR"}, {"RDHUP"}}

NewLoop(backend) ==
    [backend |-> backend, stop_requested |-> FALSE, loop_error |-> 0,
     ready_queue |-> <<>>, waiters |-> EmptyMap, wait_results |-> EmptyMap,
     root_tasks |-> <<>>, pending_waiter_count |-> 0, timed_waiter_count |-> 0,
     active_task_count |-> 0, next_deadline |-> nullopt, deadline_index_dirty |-> FALSE,
     inflight_polls |-> EmptyMap, next_token |-> 1, wake_token |-> 0,
     submission_pending |-> FALSE,
     wake_count |-> 0, bad_fds |-> {}, ring_error |-> 0, interest |-> EmptyMap,
     sq |-> <<>>, polls |-> {}, cq |-> <<>>]

\* event_loop::event_loop(): the wake fd is registered for EPOLLIN
event_loop_ctor == [NewLoop("epoll") EXCEPT !.interest = Put(@, WakeFd, {"IN"})]

\* uring_event_loop::uring_event_loop(): the wake poll is queued and flushed
uring_event_loop_ctor ==
    LET a == allocate_token(NewLoop("uring"))
        L1 == [a.L EXCEPT !.wake_token = a.token]
    IN  flush_submissions(queue_poll_add(L1, a.token, WakeFd, kReadPollMask).L).L

\* a frame: where its body stands, the readiness_wait_awaitable it is
\* suspended on (fd_, readable_, timeout_), the status its last await gave
NoAwaitable == [fd |-> -1, readable |-> TRUE, timeout |-> nullopt]
NewFrame == [st |-> "unspawned", aw |-> NoAwaitable, outcome |-> nullopt, ops |-> 0]

\* an async_sleep task: its coroutine state (unspawned, initial,
\* child_initial, child_parked, root_queued, done), its arguments, its
\* locals and what it returned
Sleepers == 1..NSleepers
ChildOf(i) == NSleepers + i
Durations == {0, ClockStep, MaxSleep}
NewSleeper == [st |-> "unspawned", duration |-> 0, cancelled |-> FALSE, called |-> 0,
               deadline |-> nullopt, wait_result |-> nullopt, result |-> nullopt]

\* result<T>: an errno (ok: has_value) and the size_t it carries
Result(e, n) == [err |-> e, n |-> n]
NoResult == Result(nullopt, 0)

\* a coroutine frame of the I/O task: the function it runs, where it is
\* suspended, its parameters and locals, and what the awaited child returned
CoFrame(name) ==
    [fn |-> name, at |-> "start", timeout |-> nullopt, deadline |-> nullopt,
     fd |-> StreamFd, readable |-> TRUE, off |-> 0, len |-> 0, span |-> <<>>,
     total |-> 0, ret |-> NoResult]

\* resolve_state of the one job (made: allocated by async_resolve), the
\* worker's job queue, where the worker thread stands, and how often it has
\* called the platform resolver
NewResolver ==
    [made |-> FALSE, ready |-> FALSE, canceled |-> FALSE, result |-> NoResult,
     jobs |-> <<>>, worker |-> "waiting", lookups |-> 0]

\* no unique_fd object constructed yet; per descriptor how often ::close was
\* called on it, which were handed to a unique_fd, and which the caller got
\* back from release()
NewFds ==
    [live |-> {}, fd_ |-> [o \in Objects |-> -1], closes |-> [d \in Descriptors |-> 0],
     adopted |-> {}, released |-> {}]

\* a loop with its frames and the position of its run(): the state the
\* variables loop, frame, pc, run_result, wait_until and front hold
Machine(L, fr, p, rr, wu, f) ==
    [loop |-> L, frame |-> fr, pc |-> p, run_result |-> rr, wait_until |-> wu,
     front |-> f]

\* the uring loop that is given what the epoll loop is given
NewTwin ==
    Machine(uring_event_loop_ctor, [h \in Handles |-> NewFrame], "idle", nullopt,
            nullopt, 0)

\* the I/O task: the chain of frames from the spawned root (handle 1) to the
\* innermost awaited child (handle Len(stack)), its cancel token, the
\* call it was spawned with, the caller's read buffer, and the root's result
NewTask == [st |-> "unspawned", op |-> CoFrame("none"), stack |-> <<>>,
            cancelled |-> FALSE, called |-> 0, buf |-> <<>>, result |-> NoResult,
            round |-> 0]

\* the socket in the kernel: received bytes not yet read, the count of bytes
\* the peer has sent, end of stream, a pending socket error, free send
\* buffer space, the bytes sent so far, a send that takes no byte, SHUT_WR
NewSocket == [rx |-> <<>>, arrived |-> 0, eof |-> FALSE, err |-> 0, space |-> 0,
              wire |-> <<>>, wzero |-> FALSE, shut_wr |-> FALSE]

\* a queued_writer: its members, whether it is constructed, and how many
\* bytes the caller has had accepted (the caller numbers the bytes it
\* enqueues 1, 2, 3, ...)
NewWriter == [built |-> FALSE, valid |-> TRUE, marks |-> [low |-> 0, high |-> 0],
              queue |-> <<>>, front_offset |-> 0, queued_bytes |-> 0,
              high_watermark_active |-> FALSE, fed |-> 0]

\* ---------------------------------------------------------------------------
\* task<T>: promises, awaiters and the scheduler they are bound to
\* ---------------------------------------------------------------------------
NTasks == 4
MaxRoots == 2
Tasks == 1..NTasks

\* task_promise_base and promise_type members of a frame that does not exist yet
NewPromise ==
    [at |-> "none", scheduler_ |-> 0, tracked_ |-> FALSE, continuation_ |-> 0,
     value_ |-> FALSE, exception_ |-> FALSE]

\* handle_[t]: the handle held by the awaiter living in frame t (0: none);
\* consumed / destroyed count consume_result() and destroy() calls per frame;
\* inline collects the handles resumed from inside an await_suspend
NewCoroutines ==
    [promise |-> [t \in Tasks |-> NewPromise],
     handle_ |-> [t \in Tasks |-> 0],
     ready_queue |-> <<>>,
     root_tasks |-> <<>>,
     active_task_count |-> 0,
     consumed |-> [t \in Tasks |-> 0],
     destroyed |-> [t \in Tasks |-> 0],
     inline |-> {},
     dangling |-> FALSE,
     torn |-> FALSE]


Init ==
    /\ loop \in {event_loop_ctor, uring_event_loop_ctor}
    /\ frame = [h \in Handles |-> NewFrame]
    /\ pc = "idle"
    /\ run_result = nullopt
    /\ wait_until = nullopt
    /\ events = <<>>
    /\ stop_pc = "idle"
    /\ front = 0
    /\ now = 0
    /\ sleeper = [i \in Sleepers |-> NewSleeper]
    /\ timerfd = nullopt
    /\ spurious = 0
    /\ co = NewTask
    /\ sock = NewSocket
    /\ qw = NewWriter
    /\ rs = NewResolver
    /\ ufd = NewFds
    /\ twin = NewTwin
    /\ tk = NewCoroutines

Done(fr) == {h \in DOMAIN fr : fr[h].st = "done"}
IoDone(C) == IF C.st = "done" THEN {1} ELSE {}
DoneRoots == Done(frame) \cup Done(sleeper) \cup IoDone(co)
StopOrError(L) == L.stop_requested \/ L.loop_error # 0

\* ------------------------------------------------------------ frame bodies
\* What a frame body does between two suspension points: it awaits
\* readiness through the scheduler interface (readiness_wait_awaitable),
\* suspends on something the loop does not know, or returns.  The first
\* frame awaits at most MaxOps times, each later frame once fewer; a timed
\* wait is only started when its deadline lies within MaxTime.
OpsBudget(h) == Max(1, MaxOps - (h - 1))

BodyOps(fr, h, t) ==
    {[kind |-> "finish"], [kind |-> "block"]}
    \cup (IF fr.ops < OpsBudget(h)
          THEN {o \in [kind : {"arm"}, fd : Fds, readable : BOOLEAN, timeout : Timeouts,
                       timeout_error : {TimeoutErrorOf(h)}] :
                    o.timeout # nullopt => t + o.timeout <= MaxTime}
          ELSE {})

\* task_final_awaiter::await_suspend of a tracked root without continuation
FinalSuspend(L, fr, h) ==
    [L |-> on_task_completed(L), fr |-> [fr EXCEPT ![h].st = "done", ![h].ops = 0]]

\* readiness_wait_awaitable::await_resume
AwaitResume(L, fr, h) ==
    IF fr[h].st = "awaiting"
    THEN LET c == consume_wait_result(L, h)
         IN  [L |-> c.L, fr |-> [fr EXCEPT ![h].outcome = c.st, ![h].aw = NoAwaitable]]
    ELSE [L |-> L, fr |-> fr]

\* handle.resume(): the body runs from its suspension point to the next one
Resume(L, fr, h, op, t) ==
    LET a == AwaitResume(L, fr, h)
    IN  CASE op.kind = "finish" -> FinalSuspend(a.L, a.fr, h)
          [] op.kind = "block" ->
                [L |-> a.L, fr |-> [a.fr EXCEPT ![h].st = "blocked", ![h].outcome = nullopt]]
          [] op.kind = "arm" ->
                LET r == arm_waiter(a.L, t, op.fd, h, op.readable, op.timeout,
                                    op.timeout_error)
                IN  IF r.st = ok
                    THEN [L |-> r.L,
                          fr |-> [a.fr EXCEPT ![h].st = "awaiting", ![h].ops = @ + 1,
                                              ![h].outcome = nullopt,
                                              ![h].aw = [fd |-> op.fd,
                                                         readable |-> op.readable,
                                                         timeout |-> op.timeout]]]
                    ELSE \* await_suspend returned false: the body goes on with the
                         \* error and returns it
                         FinalSuspend(r.L, [a.fr EXCEPT ![h].outcome = r.st,
                                                        ![h].ops = @ + 1], h)

\* ------------------------------------------------------------------ actions
\* event_loop::spawn, before run() is entered
Spawn(h) ==
    /\ pc = "idle"
    /\ frame[h].st = "unspawned"
    /\ \A g \in 1..(h - 1) : frame[g].st # "unspawned"
    /\ loop' = spawn(loop, h)
    /\ frame' = [frame EXCEPT ![h].st = "initial"]
    /\ UNCHANGED <<pc, run_result, wait_until, events, stop_pc, front, now,
                 sleeper, timerfd, spurious, co, sock, qw, rs, ufd, twin, tk>>

\* the driver thread calls run()
RunCall ==
    /\ pc = "idle"
    /\ pc' = "enter"
    /\ UNCHANGED <<loop, frame, run_result, wait_until, events, stop_pc, front,
                 now, sleeper, timerfd, spurious, co, sock, qw, rs, ufd, twin, tk>>

\* run(): the entry, lines 57-62
RunEnter ==
    /\ pc = "enter"
    /\ loop' = [loop EXCEPT !.stop_requested = FALSE, !.loop_error = 0]
    /\ pc' = "top"
    /\ UNCHANGED <<frame, run_result, wait_until, events, stop_pc, front, now,
                 sleeper, timerfd, spurious, co, sock, qw, rs, ufd, twin, tk>>

\* the head of the outer while: the stop check and the first sweep
LoopTop ==
    /\ pc = "top"
    /\ IF loop.stop_requested
       THEN /\ pc' = "exit"
            /\ loop' = loop
       ELSE \E order \in Orders(DOMAIN loop.waiters) :
                /\ loop' = process_expired_waiters(loop, now, order)
                /\ pc' = IF StopOrError(loop') THEN "exit" ELSE "drain"
    /\ events' = <<>>
    /\ UNCHANGED <<frame, run_result, wait_until, stop_pc, front, now, sleeper, timerfd, spurious, co, sock, qw,
                   rs, ufd, twin, tk>>

\* the inner while: the front of the ready queue is popped
DrainPop ==
    /\ pc = "drain"
    /\ loop.ready_queue # <<>>
    /\ front' = Head(loop.ready_queue)
    /\ loop' = [loop EXCEPT !.ready_queue = Tail(@)]
    /\ pc' = "resume"
    /\ UNCHANGED <<frame, run_result, wait_until, events, stop_pc, now, sleeper, timerfd, spurious, co, sock, qw,
                   rs, ufd, twin, tk>>

\* a pass of the inner while that resumes and cleans up without a sweep
DrainStepWithoutSweep ==
    /\ pc = "resume"
    /\ IF front = 0 \/ frame[front].st = "done"
       THEN /\ pc' = "drain"
            /\ UNCHANGED <<loop, frame, rs, ufd, twin, tk>>
       ELSE \E op \in BodyOps(frame[front], front, now) :
                LET r == Resume(loop, frame, front, op, now)
                    L1 == cleanup_completed_roots(r.L, Done(r.fr))
                IN  \E order \in Orders(DOMAIN L1.waiters) :
                        /\ loop' = L1
                        /\ frame' = r.fr
                        /\ pc' = IF StopOrError(loop') THEN "exit" ELSE "drain"
    /\ front' = 0
    /\ UNCHANGED <<run_result, wait_until, events, stop_pc, now, sleeper, timerfd, spurious, co, sock, qw, rs, ufd, twin, tk>>

\* the rest of the pass: resume the handle, clean up, sweep, test for stop
DrainStep ==
    /\ pc = "resume"
    /\ IF front = 0 \/ frame[front].st = "done"
       THEN /\ pc' = "drain"
            /\ UNCHANGED <<loop, frame, rs, ufd, twin, tk>>
       ELSE \E op \in BodyOps(frame[front], front, now) :
                LET r == Resume(loop, frame, front, op, now)
                    L1 == cleanup_completed_roots(r.L, Done(r.fr))
                IN  \E order \in Orders(DOMAIN L1.waiters) :
                        /\ loop' = process_expired_waiters(L1, now, order)
                        /\ frame' = r.fr
                        /\ pc' = IF StopOrError(loop') THEN "exit" ELSE "drain"
    /\ front' = 0
    /\ UNCHANGED <<run_result, wait_until, events, stop_pc, now, sleeper, timerfd, spurious, co, sock, qw, rs, ufd, twin, tk>>

\* what run() decides once the ready queue is empty, with the deadlock
\* test made before the test for pending waiters
IdleVerdictDeadlockFirst(L) ==
    IF StopOrError(L) THEN "exit"
    ELSE IF L.active_task_count > 0 /\ L.ready_queue = <<>> THEN "deadlock"
    ELSE IF L.active_task_count = 0 /\ L.pending_waiter_count = 0 THEN "exit"
    ELSE "wait"

\* what run() decides once the ready queue is empty
\* (event_loop.cpp 91-103, uring_event_loop.cpp 100-112)
IdleVerdict(L) ==
    IF StopOrError(L) THEN "exit"
    ELSE IF L.active_task_count = 0 /\ L.pending_waiter_count = 0 THEN "exit"
    ELSE IF L.pending_waiter_count = 0 THEN "deadlock"
    ELSE "wait"

\* the ready queue is empty: exit, deadlock, or block in the reactor
\* (event_loop.cpp 91-120, uring_event_loop.cpp 100-134)
CheckIdle ==
    /\ pc = "drain"
    /\ loop.ready_queue = <<>>
    /\ CASE IdleVerdict(loop) = "exit" ->
                /\ pc' = "exit"
                /\ UNCHANGED <<loop, run_result, wait_until, rs, ufd, twin, tk>>
         [] IdleVerdict(loop) = "deadlock" ->
                /\ pc' = "returned"
                /\ run_result' = EDEADLK
                /\ UNCHANGED <<loop, wait_until, rs, ufd, twin, tk>>
         [] IdleVerdict(loop) = "wait" ->
                \E fl \in {IF loop.backend = "uring" THEN flush_submissions(loop)
                            ELSE Ret(loop, ok)} :
                   /\ pc' = IF fl.st # ok THEN "returned" ELSE "wait"
                   /\ wait_until' = IF loop.next_deadline = nullopt THEN nullopt
                                    ELSE Max(now, loop.next_deadline)
                   /\ loop' = fl.L
                   /\ run_result' = IF fl.st # ok THEN fl.st ELSE run_result
    /\ UNCHANGED <<frame, events, stop_pc, front, now, sleeper, timerfd, spurious, co, sock, qw, rs, ufd, twin, tk>>

\* what the kernel can report to epoll_wait: the wake fd whenever its
\* counter is not zero, and any registered descriptor the peer made ready
EpollBatches(L) ==
    LET cand == {e \in [fd : (DOMAIN L.interest) \ {WakeFd}, events : EventMasks] :
                    e.events \subseteq L.interest[e.fd]}
        wake == IF L.wake_count > 0 THEN <<[fd |-> WakeFd, events |-> {"IN"}]>> ELSE <<>>
    IN  {wake \o b : b \in {x \in Batches(cand, MaxBatch) :
                              \A i, j \in DOMAIN x : i # j => x[i].fd # x[j].fd}}

\* what the ring can hand to io_uring_wait_cqe: the completions already
\* queued, then those of polls that completed (ready, or failed with
\* -EBADF), the wake poll completing whenever the counter is not zero
UringBatches(L) ==
    LET wakep == {p \in L.polls : p.fd = WakeFd /\ L.wake_count > 0}
        cand == {[poll |-> p, result |-> r] : p \in {q \in L.polls : q.fd # WakeFd},
                                               r \in {1, -EBADF}}
        wake == IF wakep = {} THEN <<>>
                ELSE <<[poll |-> CHOOSE p \in wakep : TRUE, result |-> 1]>>
    IN  {wake \o b : b \in {x \in Batches(cand, MaxBatch) :
                              \A i, j \in DOMAIN x : i # j => x[i].poll # x[j].poll}}

\* reactor_.wait returns events, which run() dispatches in order
WaitEvents ==
    /\ pc = "wait"
    /\ IF loop.backend = "epoll"
       THEN \E b \in EpollBatches(loop) :
                /\ b # <<>>
                /\ events' = b
                /\ loop' = EventLoopDispatch(loop, b)
       ELSE \E b \in UringBatches(loop) :
                LET batch == loop.cq \o [i \in DOMAIN b |->
                                 [user_data |-> b[i].poll.token, result |-> b[i].result]]
                    L0 == [loop EXCEPT !.cq = <<>>,
                                       !.polls = @ \ {b[i].poll : i \in DOMAIN b}]
                IN  /\ batch # <<>>
                    /\ events' = batch
                    /\ loop' = UringDispatch(L0, batch)
    /\ pc' = "top"
    /\ UNCHANGED <<frame, run_result, wait_until, stop_pc, front, now, sleeper, timerfd, spurious, co, sock, qw,
                   rs, ufd, twin, tk>>

\* reactor_.wait returns 0 events: the timeout elapsed
WaitTimeout ==
    /\ pc = "wait"
    /\ wait_until # nullopt /\ now >= wait_until
    /\ events' = <<>>
    /\ pc' = "top"
    /\ UNCHANGED <<loop, frame, run_result, wait_until, stop_pc, front, now,
                 sleeper, timerfd, spurious, co, sock, qw, rs, ufd, twin, tk>>

\* the tail of run(): lines 137-142 (epoll), 150-160 (uring)
RunExit ==
    /\ pc = "exit"
    /\ LET L1 == cleanup_completed_roots(loop, DoneRoots)
           fl == IF loop.backend = "uring" THEN flush_submissions(L1) ELSE Ret(L1, ok)
           L2 == IF fl.st # ok /\ fl.L.loop_error = 0
                 THEN [fl.L EXCEPT !.loop_error = fl.st] ELSE fl.L
       IN  /\ loop' = L2
           /\ run_result' = IF L2.loop_error # 0 THEN L2.loop_error ELSE ok
    /\ pc' = "returned"
    /\ UNCHANGED <<frame, wait_until, events, stop_pc, front, now, sleeper, timerfd, spurious, co, sock, qw,
                   rs, ufd, twin, tk>>

\* stop() on another thread: the store to stop_requested_ ...
StopStore ==
    /\ stop_pc = "idle"
    /\ pc \notin {"idle", "returned"}
    /\ loop' = [loop EXCEPT !.stop_requested = TRUE]
    /\ stop_pc' = "write"
    /\ UNCHANGED <<frame, pc, run_result, wait_until, events, front, now,
                 sleeper, timerfd, spurious, co, sock, qw, rs, ufd, twin, tk>>

\* a stop() whose write to the wake fd is lost
StopWriteLost ==
    /\ stop_pc = "write"
    /\ stop_pc' = "done"
    /\ UNCHANGED <<loop, frame, pc, run_result, wait_until, events, front, now,
                 sleeper, timerfd, spurious, co, sock, qw, rs, ufd, twin, tk>>

\* ... and the write of 1 to the wake fd
StopWrite ==
    /\ stop_pc = "write"
    /\ loop' = [loop EXCEPT !.wake_count = @ + 1]
    /\ stop_pc' = "done"
    /\ UNCHANGED <<frame, pc, run_result, wait_until, events, front, now,
                 sleeper, timerfd, spurious, co, sock, qw, rs, ufd, twin, tk>>

\* steady_clock advances; with no deadline armed the loop cannot observe it
Tick ==
    /\ now < MaxTime
    /\ loop.timed_waiter_count > 0
    /\ now' = now + 1
    /\ UNCHANGED <<loop, frame, pc, run_result, wait_until, events, stop_pc,
                 front, sleeper, timerfd, spurious, co, sock, qw, rs, ufd, twin, tk>>

\* the steps of the thread that drives run()
LoopThread ==
    \/ RunEnter
    \/ LoopTop
    \/ DrainPop
    \/ DrainStep
    \/ CheckIdle
    \/ WaitTimeout
    \/ RunExit

\* everything but stop()
NextNoStop ==
    \/ \E h \in Handles : Spawn(h)
    \/ RunCall
    \/ LoopThread
    \/ WaitEvents
    \/ Tick

Next ==
    \/ NextNoStop
    \/ StopStore
    \/ StopWrite

Spec == Init /\ [][Next]_vars

\* a step of the driver thread seen through run()'s position alone: at
\* enter, top, drain, resume and exit, and in a reactor wait whose timeout
\* has elapsed, the thread has a step to take and every step of LoopThread
\* moves pc
LoopThreadMoves ==
    /\ \/ pc \in {"enter", "top", "drain", "resume", "exit"}
       \/ pc = "wait" /\ wait_until # nullopt /\ now >= wait_until
    /\ pc' \in {"top", "drain", "resume", "wait", "exit", "returned"}

\* no thread calls stop(); the driver thread, once in run(), keeps taking
\* its next step whenever it is not blocked in the reactor wait
FairSpec == Init /\ [][NextNoStop]_vars /\ WF_pc(LoopThreadMoves)

\* the reactor wait returns once the wake fd is readable: in the epoll loop
\* the wake fd is always registered, in the uring loop its poll must be in
\* flight
WakeDelivered ==
    /\ pc = "wait"
    /\ loop.wake_count > 0
    /\ loop.backend = "uring" => \E p \in loop.polls : p.fd = WakeFd
    /\ pc' = "top"

\* stop() may be called: the calling thread finishes stop(), the kernel
\* wakes a reactor wait whose wake fd is readable, the driver thread keeps
\* taking its steps
FairStopSpec ==
    /\ Init /\ [][Next]_vars
    /\ WF_pc(LoopThreadMoves)
    /\ WF_pc(WakeDelivered)
    /\ WF_vars(StopWrite)

\* ============================================================= async_sleep
Sl(L, sl, tfd) == [L |-> L, sl |-> sl, tfd |-> tfd]

\* a timerfd is readable once its one-shot timer has expired and until the
\* expiration is read or the timer is set again
TimerReadable(tfd, t) == tfd # nullopt /\ t >= tfd

\* co_return from async_sleep: the root's final awaiter runs
SleepReturn(L, sl, tfd, i, res) ==
    Sl(on_task_completed(L), [sl EXCEPT ![i].st = "done", ![i].result = res], tfd)

\* a loop pass that returns ok once the timer has ticked, whatever the time
async_sleep_loop_one_slice(L, sl, tfd, i, t) ==
    IF sl[i].cancelled THEN SleepReturn(L, sl, tfd, i, ECANCELED)
    ELSE IF t >= sl[i].deadline \/ sl[i].wait_result = ok
    THEN SleepReturn(L, sl, tfd, i, ok)
    ELSE Sl(schedule(L, ChildOf(i)),
            [sl EXCEPT ![i].st = "child_initial", ![i].wait_result = nullopt],
            t + Max(1, Min(sl[i].deadline - t, kSliceMs)))

\* one pass of the while loop up to the co_await (lines 822-847): the token
\* test, the deadline test, the slice, timerfd_settime, and the child task
\* wait_readable(timer_fd) scheduled by the task awaiter
async_sleep_loop(L, sl, tfd, i, t) ==
    IF sl[i].cancelled THEN SleepReturn(L, sl, tfd, i, ECANCELED)
    ELSE IF t >= sl[i].deadline THEN SleepReturn(L, sl, tfd, i, ok)
    ELSE LET remaining == sl[i].deadline - t
             slice == Max(1, Min(remaining, kSliceMs))
         IN  Sl(schedule(L, ChildOf(i)),
                [sl EXCEPT ![i].st = "child_initial", ![i].wait_result = nullopt],
                t + slice)

\* the first resume of async_sleep (lines 806-820)
async_sleep(L, sl, tfd, i, t) ==
    IF sl[i].cancelled THEN SleepReturn(L, sl, tfd, i, ECANCELED)
    ELSE IF sl[i].duration <= 0 THEN SleepReturn(L, sl, tfd, i, ok)
    ELSE async_sleep_loop(L, [sl EXCEPT ![i].deadline = t + sl[i].duration], tfd, i, t)

\* async_sleep resumed by its child (lines 848-860): the wait result, the
\* read of the timer (which disarms it, or fails with EAGAIN), the next pass
async_sleep_resumed(L, sl, tfd, i, t) ==
    IF sl[i].wait_result # ok THEN SleepReturn(L, sl, tfd, i, sl[i].wait_result)
    ELSE async_sleep_loop(L, sl, IF TimerReadable(tfd, t) THEN nullopt ELSE tfd, i, t)

\* the first resume of the child task wait_readable(timer_fd): the
\* awaitable arms the waiter; on failure the child returns the error and its
\* final awaiter schedules the continuation
wait_readable(L, sl, tfd, i, t) ==
    LET r == arm_waiter(L, t, TimerFd, ChildOf(i), TRUE, nullopt, ETIMEDOUT)
    IN  IF r.st = ok THEN Sl(r.L, [sl EXCEPT ![i].st = "child_parked"], tfd)
        ELSE Sl(schedule(r.L, i),
                [sl EXCEPT ![i].st = "root_queued", ![i].wait_result = r.st], tfd)

\* the child resumed by the loop: await_resume, co_return, final awaiter
wait_readable_resumed(L, sl, tfd, i) ==
    LET c == consume_wait_result(L, ChildOf(i))
    IN  Sl(schedule(c.L, i),
           [sl EXCEPT ![i].st = "root_queued", ![i].wait_result = c.st], tfd)

\* handle.resume() on a root or child handle of a sleeper
SleepResumeHandle(L, sl, tfd, h, t) ==
    LET i == IF h > NSleepers THEN h - NSleepers ELSE h
    IN  CASE h <= NSleepers /\ sl[i].st = "initial" -> async_sleep(L, sl, tfd, i, t)
          [] h <= NSleepers /\ sl[i].st = "root_queued" ->
                async_sleep_resumed(L, sl, tfd, i, t)
          [] h > NSleepers /\ sl[i].st = "child_initial" ->
                wait_readable(L, sl, tfd, i, t)
          [] h > NSleepers /\ sl[i].st = "child_parked" ->
                wait_readable_resumed(L, sl, tfd, i)
          [] OTHER -> Sl(L, sl, tfd)

\* spawn(async_sleep(d, token)) before run() is entered
SleepSpawn(i) ==
    /\ pc = "idle"
    /\ sleeper[i].st = "unspawned"
    /\ \A j \in 1..(i - 1) : sleeper[j].st # "unspawned"
    /\ \E d \in Durations :
          sleeper' = [sleeper EXCEPT ![i].st = "initial", ![i].duration = d,
                                     ![i].called = now]
    /\ loop' = spawn(loop, i)
    /\ UNCHANGED <<frame, pc, run_result, wait_until, events, stop_pc, front, now,
                   timerfd, spurious, co, sock, qw, rs, ufd, twin, tk>>

\* cancel_source::request_stop() on the source of sleeper i's token
Cancel(i) ==
    /\ sleeper[i].st # "done"
    /\ ~sleeper[i].cancelled
    /\ sleeper' = [sleeper EXCEPT ![i].cancelled = TRUE]
    /\ UNCHANGED <<loop, frame, pc, run_result, wait_until, events, stop_pc, front,
                   now, timerfd, spurious, co, sock, qw, rs, ufd, twin, tk>>

\* the inner while of run() resuming a sleeper's root or child handle
SleepResume ==
    /\ pc = "resume"
    /\ LET r == SleepResumeHandle(loop, sleeper, timerfd, front, now)
           L1 == cleanup_completed_roots(r.L, Done(r.sl))
       IN  \E order \in Orders(DOMAIN L1.waiters) :
               /\ loop' = process_expired_waiters(L1, now, order)
               /\ sleeper' = r.sl
               /\ timerfd' = r.tfd
               /\ pc' = IF StopOrError(loop') THEN "exit" ELSE "drain"
    /\ front' = 0
    /\ UNCHANGED <<frame, run_result, wait_until, events, stop_pc, now, spurious, co, sock, qw, rs, ufd, twin, tk>>

\* the reactor wait returns the timer descriptor readable: its timer has
\* expired, or the kernel reports it without an expiration to read
SleepWaitEvents ==
    /\ pc = "wait"
    /\ \/ TimerReadable(timerfd, now) /\ spurious' = spurious
       \/ ~TimerReadable(timerfd, now) /\ spurious < MaxSpurious
                                       /\ spurious' = spurious + 1
    /\ IF loop.backend = "epoll"
       THEN /\ TimerFd \in DOMAIN loop.interest
            /\ events' = <<[fd |-> TimerFd, events |-> {"IN"}]>>
            /\ loop' = EventLoopDispatch(loop, events')
       ELSE \E p \in {q \in loop.polls : q.fd = TimerFd} :
                /\ events' = loop.cq \o <<[user_data |-> p.token, result |-> 1]>>
                /\ loop' = UringDispatch([loop EXCEPT !.cq = <<>>, !.polls = @ \ {p}],
                                         events')
    /\ pc' = "top"
    /\ UNCHANGED <<frame, run_result, wait_until, stop_pc, front, now, sleeper,
                   timerfd, co, sock, qw, rs, ufd, twin, tk>>

\* steady_clock advances while a sleeper or the timer has a time to wait for
SleepTick ==
    /\ now < NSleepers * MaxSleep
    /\ \/ \E i \in Sleepers : /\ sleeper[i].st \notin {"unspawned", "done"}
                               /\ sleeper[i].deadline # nullopt
                               /\ now < sleeper[i].deadline
       \/ timerfd # nullopt /\ now < timerfd
    /\ now' = now + ClockStep
    /\ UNCHANGED <<loop, frame, pc, run_result, wait_until, events, stop_pc, front,
                   sleeper, timerfd, spurious, co, sock, qw, rs, ufd, twin, tk>>

SleepNext ==
    \/ \E i \in Sleepers : SleepSpawn(i)
    \/ \E i \in Sleepers : Cancel(i)
    \/ RunCall
    \/ RunEnter
    \/ LoopTop
    \/ DrainPop
    \/ SleepResume
    \/ CheckIdle
    \/ SleepWaitEvents
    \/ RunExit
    \/ SleepTick

SleepSpec == Init /\ [][SleepNext]_vars

\* a reactor wait returns once the timer descriptor it polls is readable
TimerDelivered ==
    /\ pc = "wait"
    /\ TimerReadable(timerfd, now)
    /\ pc' = "top"

\* the driver thread keeps stepping, the clock keeps advancing, the kernel
\* reports an expired timer
FairSleepSpec ==
    /\ Init /\ [][SleepNext]_vars
    /\ WF_pc(LoopThreadMoves)
    /\ WF_pc(TimerDelivered)
    /\ WF_vars(SleepTick)

\* ============================================================== stream I/O
\* the objects a resume of the I/O task can touch
Io(C, S, Q, L) == [co |-> C, sock |-> S, qw |-> Q, loop |-> L]

SeqMin(a, b) == IF a < b THEN a ELSE b

\* tcp_stream::read_some into a buffer of len bytes: recv takes what is
\* there, reports end of stream with 0, a socket error, or EAGAIN
read_some(S, len) ==
    IF len = 0 THEN [sock |-> S, r |-> Result(ok, 0), bytes |-> <<>>]
    ELSE IF S.rx # <<>>
    THEN LET k == SeqMin(len, Len(S.rx))
         IN  [sock |-> [S EXCEPT !.rx = SubSeq(@, k + 1, Len(@))],
              r |-> Result(ok, k), bytes |-> SubSeq(S.rx, 1, k)]
    ELSE IF S.err # 0 THEN [sock |-> S, r |-> Result(S.err, 0), bytes |-> <<>>]
    ELSE IF S.eof THEN [sock |-> S, r |-> Result(ok, 0), bytes |-> <<>>]
    ELSE [sock |-> S, r |-> Result(EAGAIN, 0), bytes |-> <<>>]

\* tcp_stream::write_some: send copies what fits into the send buffer
write_some(S, span) ==
    IF span = <<>> THEN [sock |-> S, r |-> Result(ok, 0)]
    ELSE IF S.err # 0 THEN [sock |-> S, r |-> Result(S.err, 0)]
    ELSE IF S.shut_wr THEN [sock |-> S, r |-> Result(EPIPE, 0)]
    ELSE IF S.wzero THEN [sock |-> [S EXCEPT !.wzero = FALSE], r |-> Result(ok, 0)]
    ELSE IF S.space = 0 THEN [sock |-> S, r |-> Result(EAGAIN, 0)]
    ELSE LET k == SeqMin(S.space, Len(span))
         IN  [sock |-> [S EXCEPT !.space = @ - k, !.wire = @ \o SubSeq(span, 1, k)],
              r |-> Result(ok, k)]

is_would_block(e) == e = EAGAIN
is_timeout_error(e) == e = ETIMEDOUT

\* what poll reports for the socket
SockReadable(S) == S.rx # <<>> \/ S.eof \/ S.err # 0
SockWritable(S) == S.space > 0 \/ S.wzero \/ S.err # 0 \/ S.shut_wr

\* bytes stored into the caller's buffer at an offset
Store(buf, off, bytes) ==
    [i \in DOMAIN buf |-> IF i > off /\ i <= off + Len(bytes) THEN bytes[i - off]
                          ELSE buf[i]]

CoTop(X) == X.co.stack[Len(X.co.stack)]

\* co_await child: the task awaiter hands the child to the scheduler
CoAwait(X, f, child) ==
    LET h == Len(X.co.stack)
    IN  [X EXCEPT !.co.stack = Append([@ EXCEPT ![h] = [f EXCEPT !.at = "awaiting"]],
                                      child),
                  !.loop = schedule(@, h + 1)]

\* co_return: the final awaiter reports a tracked root as completed, or
\* schedules the awaiting parent, which finds the value in its await_resume
CoReturn(X, val) ==
    LET h == Len(X.co.stack)
    IN  IF h = 1
        THEN [X EXCEPT !.co.stack = <<>>, !.co.st = "done", !.co.result = val,
                       !.loop = on_task_completed(@)]
        ELSE [X EXCEPT !.co.stack = [SubSeq(@, 1, h - 1) EXCEPT ![h - 1].ret = val],
                       !.loop = schedule(@, h - 1)]

\* wait_readable / wait_writable / wait_readable_for / wait_writable_for:
\* the awaitable arms the waiter and parks, or fails at once; resumed by the
\* loop it returns the wait result
Wait(readable, timeout) ==
    [CoFrame("wait") EXCEPT !.readable = readable, !.timeout = timeout]

wait_step(X, t) ==
    LET f == CoTop(X)
        h == Len(X.co.stack)
    IN  IF f.at = "start"
        THEN LET r == arm_waiter(X.loop, t, f.fd, h, f.readable, f.timeout,
                                 ETIMEDOUT)
             IN  IF r.st = ok
                 THEN [X EXCEPT !.loop = r.L, !.co.stack[h].at = "parked"]
                 ELSE CoReturn([X EXCEPT !.loop = r.L], Result(r.st, 0))
        ELSE LET c == consume_wait_result(X.loop, h)
             IN  CoReturn([X EXCEPT !.loop = c.L], Result(c.st, 0))

\* one turn of the loop of async_read_some / async_read_some_with_timeout
\* (timeout nullopt: untimed), from the token test to the co_await
read_turn(X, f, t) ==
    LET rd == read_some(X.sock, f.len)
        X1 == [X EXCEPT !.sock = rd.sock, !.co.buf = Store(@, f.off, rd.bytes)]
    IN  IF f.timeout # nullopt /\ X.co.cancelled THEN CoReturn(X, Result(ECANCELED, 0))
        ELSE IF rd.r.err = ok THEN CoReturn(X1, rd.r)
        ELSE IF ~is_would_block(rd.r.err) THEN CoReturn(X1, rd.r)
        ELSE IF f.timeout = nullopt THEN CoAwait(X1, f, Wait(TRUE, nullopt))
        ELSE IF t >= f.deadline THEN CoReturn(X1, Result(ETIMEDOUT, 0))
        ELSE CoAwait(X1, f, Wait(TRUE, Max(1, Min(f.deadline - t, kIoSliceMs))))

write_turn(X, f, t) ==
    LET wr == write_some(X.sock, f.span)
        X1 == [X EXCEPT !.sock = wr.sock]
    IN  IF f.timeout # nullopt /\ X.co.cancelled THEN CoReturn(X, Result(ECANCELED, 0))
        ELSE IF wr.r.err = ok THEN CoReturn(X1, wr.r)
        ELSE IF ~is_would_block(wr.r.err) THEN CoReturn(X1, wr.r)
        ELSE IF f.timeout = nullopt THEN CoAwait(X1, f, Wait(FALSE, nullopt))
        ELSE IF t >= f.deadline THEN CoReturn(X1, Result(ETIMEDOUT, 0))
        ELSE CoAwait(X1, f, Wait(FALSE, Max(1, Min(f.deadline - t, kIoSliceMs))))

\* async_read_some and async_write_some
async_read_some(X, t) ==
    LET f == CoTop(X)
    IN  IF f.at = "awaiting" /\ f.ret.err # ok THEN CoReturn(X, Result(f.ret.err, 0))
        ELSE read_turn(X, f, t)

async_write_some(X, t) ==
    LET f == CoTop(X)
    IN  IF f.at = "awaiting" /\ f.ret.err # ok THEN CoReturn(X, Result(f.ret.err, 0))
        ELSE write_turn(X, f, t)

\* a timed read that gives up when a wait slice times out
async_read_some_with_timeout_slice_ends(X, t) ==
    LET f == CoTop(X)
    IN  IF f.at = "start"
        THEN IF f.timeout < 0 THEN CoReturn(X, Result(EINVAL, 0))
             ELSE read_turn(X, [f EXCEPT !.deadline = t + f.timeout], t)
        ELSE IF f.ret.err # ok THEN CoReturn(X, Result(f.ret.err, 0))
        ELSE read_turn(X, f, t)

\* async_read_some_with_timeout and async_write_some_with_timeout
async_read_some_with_timeout(X, t) ==
    LET f == CoTop(X)
    IN  IF f.at = "start"
        THEN IF f.timeout < 0 THEN CoReturn(X, Result(EINVAL, 0))
             ELSE read_turn(X, [f EXCEPT !.deadline = t + f.timeout], t)
        ELSE IF f.ret.err # ok /\ ~is_timeout_error(f.ret.err)
        THEN CoReturn(X, Result(f.ret.err, 0))
        ELSE read_turn(X, f, t)

async_write_some_with_timeout(X, t) ==
    LET f == CoTop(X)
    IN  IF f.at = "start"
        THEN IF f.timeout < 0 THEN CoReturn(X, Result(EINVAL, 0))
             ELSE write_turn(X, [f EXCEPT !.deadline = t + f.timeout], t)
        ELSE IF f.ret.err # ok /\ ~is_timeout_error(f.ret.err)
        THEN CoReturn(X, Result(f.ret.err, 0))
        ELSE write_turn(X, f, t)

\* a read loop that hands every partial read the whole buffer
async_read_exact_from_start(X, t) ==
    LET f == CoTop(X)
        g == IF f.at = "awaiting" THEN [f EXCEPT !.total = @ + f.ret.n] ELSE f
    IN  IF f.at = "awaiting" /\ f.ret.err # ok THEN CoReturn(X, Result(f.ret.err, 0))
        ELSE IF f.at = "awaiting" /\ f.ret.n = 0 THEN CoReturn(X, Result(ECONNRESET, 0))
        ELSE IF g.total < g.len
        THEN CoAwait(X, g, [CoFrame("async_read_some") EXCEPT !.off = 0,
                                                            !.len = g.len - g.total])
        ELSE CoReturn(X, Result(ok, 0))

\* async_read_exact: until total reaches buffer.size(), co_await
\* async_read_some(stream, buffer.subspan(total))
async_read_exact(X, t) ==
    LET f == CoTop(X)
        g == IF f.at = "awaiting" THEN [f EXCEPT !.total = @ + f.ret.n] ELSE f
    IN  IF f.at = "awaiting" /\ f.ret.err # ok THEN CoReturn(X, Result(f.ret.err, 0))
        ELSE IF f.at = "awaiting" /\ f.ret.n = 0 THEN CoReturn(X, Result(ECONNRESET, 0))
        ELSE IF g.total < g.len
        THEN CoAwait(X, g, [CoFrame("async_read_some") EXCEPT !.off = g.total,
                                                            !.len = g.len - g.total])
        ELSE CoReturn(X, Result(ok, 0))

\* async_write_all: the same loop over async_write_some
async_write_all(X, t) ==
    LET f == CoTop(X)
        g == IF f.at = "awaiting" THEN [f EXCEPT !.total = @ + f.ret.n] ELSE f
    IN  IF f.at = "awaiting" /\ f.ret.err # ok THEN CoReturn(X, Result(f.ret.err, 0))
        ELSE IF f.at = "awaiting" /\ f.ret.n = 0 THEN CoReturn(X, Result(EPIPE, 0))
        ELSE IF g.total < Len(g.span)
        THEN CoAwait(X, g, [CoFrame("async_write_some") EXCEPT
                                !.span = SubSeq(g.span, g.total + 1, Len(g.span))])
        ELSE CoReturn(X, Result(ok, 0))

\* ------------------------------------------------------------ queued_writer
\* queued_writer::queued_writer: low 0 becomes 1, high is raised to low
queued_writer_ctor(Q, marks) ==
    LET low == IF marks.low = 0 THEN 1 ELSE marks.low
        high == IF marks.high < low THEN low ELSE marks.high
    IN  [Q EXCEPT !.built = TRUE, !.marks = [low |-> low, high |-> high]]

State(Q) == IF Q.high_watermark_active THEN "high_watermark" ELSE "normal"

\* what enqueue returns: the writer after the call and result<backpressure_state>
Enqueued(Q, e, state) == [qw |-> Q, err |-> e, state |-> state]

\* an enqueue that appends whatever the backpressure state is
enqueue_owned_never_refuses(Q, bytes) ==
    IF ~Q.valid THEN Enqueued(Q, EBADF, "none")
    ELSE IF bytes = <<>> THEN Enqueued(Q, ok, State(Q))
    ELSE LET Q1 == [Q EXCEPT !.queued_bytes = @ + Len(bytes),
                             !.queue = Append(@, bytes),
                             !.fed = @ + Len(bytes)]
             Q2 == IF Q1.queued_bytes >= Q1.marks.high
                   THEN [Q1 EXCEPT !.high_watermark_active = TRUE] ELSE Q1
         IN  Enqueued(Q2, ok, State(Q2))

\* an enqueue that appends empty buffers too
enqueue_owned_appends_empty(Q, bytes) ==
    IF ~Q.valid THEN Enqueued(Q, EBADF, "none")
    ELSE IF Q.high_watermark_active /\ Q.queued_bytes >= Q.marks.low
    THEN Enqueued(Q, EAGAIN, "none")
    ELSE LET Q1 == [Q EXCEPT !.queued_bytes = @ + Len(bytes),
                             !.queue = Append(@, bytes),
                             !.fed = @ + Len(bytes)]
             Q2 == IF Q1.queued_bytes >= Q1.marks.high
                   THEN [Q1 EXCEPT !.high_watermark_active = TRUE] ELSE Q1
         IN  Enqueued(Q2, ok, State(Q2))

\* queued_writer::enqueue_owned
enqueue_owned(Q, bytes) ==
    IF ~Q.valid THEN Enqueued(Q, EBADF, "none")
    ELSE IF bytes = <<>> THEN Enqueued(Q, ok, State(Q))
    ELSE IF Q.high_watermark_active /\ Q.queued_bytes >= Q.marks.low
    THEN Enqueued(Q, EAGAIN, "none")
    ELSE LET Q1 == [Q EXCEPT !.queued_bytes = @ + Len(bytes),
                             !.queue = Append(@, bytes),
                             !.fed = @ + Len(bytes)]
             Q2 == IF Q1.queued_bytes >= Q1.marks.high
                   THEN [Q1 EXCEPT !.high_watermark_active = TRUE] ELSE Q1
         IN  Enqueued(Q2, ok, State(Q2))

\* queued_writer::enqueue, the overload that copies a span and the one that
\* takes a vector
enqueue(Q, bytes, moved) ==
    IF moved THEN enqueue_owned(Q, bytes)
    ELSE LET copy == [i \in 1..Len(bytes) |-> bytes[i]] IN enqueue_owned(Q, copy)

\* a drain update that clears the flag at every drain
update_backpressure_after_drain_always(Q) ==
    [Q EXCEPT !.high_watermark_active = FALSE]

update_backpressure_after_drain(Q) ==
    IF Q.high_watermark_active /\ Q.queued_bytes <= Q.marks.low
    THEN [Q EXCEPT !.high_watermark_active = FALSE] ELSE Q

\* an advance that never pops the front buffer
flush_advance_keeps_front(Q, n) ==
    update_backpressure_after_drain(
        [Q EXCEPT !.front_offset = @ + n, !.queued_bytes = @ - n])

\* flush, after a write of n bytes: advance the cursor, pop the front buffer
\* when it is exhausted, update the flag
flush_advance(Q, n) ==
    LET Q1 == [Q EXCEPT !.front_offset = @ + n, !.queued_bytes = @ - n]
        Q2 == IF Q1.front_offset = Len(Head(Q1.queue))
              THEN [Q1 EXCEPT !.queue = Tail(@), !.front_offset = 0] ELSE Q1
    IN  update_backpressure_after_drain(Q2)

\* a loop head that offers the whole front buffer again
flush_turn_from_buffer_start(X, f, t) ==
    LET Q == X.qw
        slice == Max(1, Min(f.deadline - t, kFlushSliceMs))
    IN  IF Q.queued_bytes = 0 THEN CoReturn(X, Result(ok, 0))
        ELSE IF X.co.cancelled THEN CoReturn(X, Result(ECANCELED, 0))
        ELSE IF t >= f.deadline THEN CoReturn(X, Result(ETIMEDOUT, 0))
        ELSE CoAwait(X, f, [CoFrame("async_write_some_with_timeout") EXCEPT
                               !.span = Head(Q.queue), !.timeout = slice])

\* the head of flush's while loop up to the co_await
flush_turn(X, f, t) ==
    LET Q == X.qw
        front_buf == Head(Q.queue)
        remaining_span == SubSeq(front_buf, Q.front_offset + 1, Len(front_buf))
        slice == Max(1, Min(f.deadline - t, kFlushSliceMs))
    IN  IF Q.queued_bytes = 0 THEN CoReturn(X, Result(ok, 0))
        ELSE IF X.co.cancelled THEN CoReturn(X, Result(ECANCELED, 0))
        ELSE IF t >= f.deadline THEN CoReturn(X, Result(ETIMEDOUT, 0))
        ELSE CoAwait(X, f, [CoFrame("async_write_some_with_timeout") EXCEPT
                               !.span = remaining_span, !.timeout = slice])

\* queued_writer::flush
flush(X, t) ==
    LET f == CoTop(X)
    IN  IF f.at = "start"
        THEN IF f.timeout < 0 THEN CoReturn(X, Result(EINVAL, 0))
             ELSE flush_turn(X, [f EXCEPT !.deadline = t + f.timeout], t)
        ELSE IF f.ret.err # ok THEN CoReturn(X, Result(f.ret.err, 0))
        ELSE IF f.ret.n = 0 THEN CoReturn(X, Result(EPIPE, 0))
        ELSE flush_turn([X EXCEPT !.qw = flush_advance(@, f.ret.n)], f, t)

\* tcp_stream::shutdown_write
shutdown_write(S) ==
    IF S.err # 0 THEN [sock |-> S, st |-> S.err]
    ELSE [sock |-> [S EXCEPT !.shut_wr = TRUE], st |-> ok]

\* a graceful_shutdown that shuts the write side down whatever flush returned
graceful_shutdown_regardless(X, t) ==
    LET f == CoTop(X)
        sh == shutdown_write(X.sock)
    IN  IF f.at = "start"
        THEN CoAwait(X, f, [CoFrame("flush") EXCEPT !.timeout = f.timeout])
        ELSE CoReturn([X EXCEPT !.sock = sh.sock], Result(sh.st, 0))

\* queued_writer::graceful_shutdown
graceful_shutdown(X, t) ==
    LET f == CoTop(X)
        sh == shutdown_write(X.sock)
    IN  IF f.at = "start"
        THEN CoAwait(X, f, [CoFrame("flush") EXCEPT !.timeout = f.timeout])
        ELSE IF f.ret.err # ok THEN CoReturn(X, f.ret)
        ELSE CoReturn([X EXCEPT !.sock = sh.sock], Result(sh.st, 0))

\* ------------------------------------------------------------ async_resolve
\* async_sleep as a task awaited by another task: one pass of its while loop
\* up to the co_await of wait_readable(timer_fd)
sleep_turn(X, f, t) ==
    IF X.co.cancelled THEN CoReturn(X, Result(ECANCELED, 0))
    ELSE IF t >= f.deadline THEN CoReturn(X, Result(ok, 0))
    ELSE LET slice == Max(1, Min(f.deadline - t, kSliceMs))
         IN  CoAwait([X EXCEPT !.tfd = t + slice], f,
                     [Wait(TRUE, nullopt) EXCEPT !.fd = TimerFd])

\* async_sleep(duration, token), duration in the frame's timeout
sleep_step(X, t) ==
    LET f == CoTop(X)
    IN  IF f.at = "start"
        THEN IF X.co.cancelled THEN CoReturn(X, Result(ECANCELED, 0))
             ELSE IF f.timeout <= 0 THEN CoReturn(X, Result(ok, 0))
             ELSE sleep_turn(X, [f EXCEPT !.deadline = t + f.timeout], t)
        ELSE IF f.ret.err # ok THEN CoReturn(X, Result(f.ret.err, 0))
        ELSE sleep_turn([X EXCEPT !.tfd = IF TimerReadable(@, t) THEN nullopt ELSE @],
                        f, t)

\* resolver_worker::enqueue of the job that shares the new resolve_state
resolver_enqueue(R) ==
    [R EXCEPT !.made = TRUE, !.jobs = Append(@, "job")]

\* one pass of the polling loop of async_resolve up to the co_await
resolve_turn(X, f) ==
    IF X.co.cancelled
    THEN CoReturn([X EXCEPT !.rs.canceled = TRUE], Result(ECANCELED, 0))
    ELSE IF X.rs.ready THEN CoReturn(X, X.rs.result)
    ELSE CoAwait(X, f, [CoFrame("async_sleep") EXCEPT !.timeout = kResolvePollMs])

\* an async_resolve that hands the job to the worker before it looks at the
\* token
async_resolve_enqueues_first(X, t) ==
    LET f == CoTop(X)
    IN  IF f.at = "start"
        THEN resolve_turn([X EXCEPT !.rs = resolver_enqueue(@)], f)
        ELSE IF f.ret.err # ok THEN CoReturn(X, Result(f.ret.err, 0))
        ELSE resolve_turn(X, f)

\* async_resolve(host, service, token)
async_resolve(X, t) ==
    LET f == CoTop(X)
    IN  IF f.at = "start"
        THEN IF X.co.cancelled THEN CoReturn(X, Result(ECANCELED, 0))
             ELSE resolve_turn([X EXCEPT !.rs = resolver_enqueue(@)], f)
        ELSE IF f.ret.err # ok THEN CoReturn(X, Result(f.ret.err, 0))
        ELSE resolve_turn(X, f)

\* handle.resume() on the innermost frame of the I/O task
co_resume(X, t) ==
    LET fn == CoTop(X).fn
    IN  CASE fn = "wait" -> wait_step(X, t)
          [] fn = "async_read_some" -> async_read_some(X, t)
          [] fn = "async_write_some" -> async_write_some(X, t)
          [] fn = "async_read_some_with_timeout" -> async_read_some_with_timeout(X, t)
          [] fn = "async_write_some_with_timeout" -> async_write_some_with_timeout(X, t)
          [] fn = "async_read_exact" -> async_read_exact(X, t)
          [] fn = "async_write_all" -> async_write_all(X, t)
          [] fn = "flush" -> flush(X, t)
          [] fn = "graceful_shutdown" -> graceful_shutdown(X, t)
          [] fn = "async_sleep" -> sleep_step(X, t)
          [] fn = "async_resolve" -> async_resolve(X, t)

\* ------------------------------------------------------ stream I/O actions
IoTimeouts == {-1, 0, ClockStep, MaxIoTimeout}
Payload(n) == [i \in 1..n |-> i]
Blank(n) == [i \in 1..n |-> 0]

\* the task as spawn() leaves it: one frame, suspended at its start
Spawned(C, f, buf, t) ==
    [C EXCEPT !.st = "live", !.op = f, !.stack = <<f>>, !.called = t, !.buf = buf]

\* spawn(async_read_some_with_timeout(stream, buf, timeout, token)) or the
\* write counterpart
IoSpawnTimed ==
    /\ pc = "idle"
    /\ co.st = "unspawned"
    /\ \E timeout \in IoTimeouts :
          \/ co' = Spawned(co, [CoFrame("async_read_some_with_timeout") EXCEPT
                                   !.timeout = timeout, !.len = MaxBuf],
                           Blank(MaxBuf), now)
          \/ co' = Spawned(co, [CoFrame("async_write_some_with_timeout") EXCEPT
                                   !.timeout = timeout, !.span = Payload(MaxBuf)],
                           <<>>, now)
    /\ loop' = spawn(loop, 1)
    /\ UNCHANGED <<frame, pc, run_result, wait_until, events, stop_pc, front, now,
                   sleeper, timerfd, spurious, sock, qw, rs, ufd, twin, tk>>

\* spawn(async_read_exact(stream, buf)) or spawn(async_write_all(stream, buf))
IoSpawnExact ==
    /\ pc = "idle"
    /\ co.st = "unspawned"
    /\ \E n \in 0..MaxBuf :
          \/ co' = Spawned(co, [CoFrame("async_read_exact") EXCEPT !.len = n],
                           Blank(n), now)
          \/ co' = Spawned(co, [CoFrame("async_write_all") EXCEPT !.span = Payload(n)],
                           <<>>, now)
    /\ loop' = spawn(loop, 1)
    /\ UNCHANGED <<frame, pc, run_result, wait_until, events, stop_pc, front, now,
                   sleeper, timerfd, spurious, sock, qw, rs, ufd, twin, tk>>

\* cancel_source::request_stop() on the source of the task's token
IoCancel ==
    /\ co.st # "done"
    /\ ~co.cancelled
    /\ co' = [co EXCEPT !.cancelled = TRUE]
    /\ UNCHANGED <<loop, frame, pc, run_result, wait_until, events, stop_pc, front,
                   now, sleeper, timerfd, spurious, sock, qw, rs, ufd, twin, tk>>

\* the inner while of run() resuming a frame of the I/O task
IoResume ==
    /\ pc = "resume"
    /\ front = Len(co.stack)
    /\ LET X == co_resume(Io(co, sock, qw, loop), now)
           L1 == cleanup_completed_roots(X.loop, IoDone(X.co))
       IN  /\ \E order \in Orders(DOMAIN L1.waiters) :
                 /\ loop' = process_expired_waiters(L1, now, order)
                 /\ pc' = IF StopOrError(loop') THEN "exit" ELSE "drain"
           /\ co' = X.co
           /\ sock' = X.sock
           /\ qw' = X.qw
    /\ front' = 0
    /\ UNCHANGED <<frame, run_result, wait_until, events, stop_pc, now, sleeper,
                   timerfd, spurious, rs, ufd, twin, tk>>

\* what the kernel reports for the socket, or, when rep is set, reports
\* although there is nothing to read and no room to write
SockFlags(S, rep) ==
    (IF SockReadable(S) \/ rep THEN {"IN"} ELSE {})
        \cup (IF SockWritable(S) \/ rep THEN {"OUT"} ELSE {})
        \cup (IF S.err # 0 THEN {"ERR"} ELSE {})
        \cup (IF S.eof THEN {"RDHUP"} ELSE {})

\* the reactor wait returns with the socket's readiness (and, on io_uring,
\* with the completions of cancelled polls that were waiting in the ring)
IoWaitEvents ==
    /\ pc = "wait"
    /\ \E rep \in BOOLEAN :
          /\ rep => spurious < MaxSpurious
          /\ spurious' = IF rep THEN spurious + 1 ELSE spurious
          /\ IF loop.backend = "epoll"
             THEN /\ StreamFd \in DOMAIN loop.interest
                  /\ SockFlags(sock, rep) \cap loop.interest[StreamFd] # {}
                  /\ rep => SockFlags(sock, FALSE) \cap loop.interest[StreamFd] = {}
                  /\ events' = <<[fd |-> StreamFd,
                                  events |-> SockFlags(sock, rep)
                                                 \cap loop.interest[StreamFd]]>>
                  /\ loop' = EventLoopDispatch(loop, events')
             ELSE LET hit(r) == {p \in loop.polls :
                                    p.fd = StreamFd /\ SockFlags(sock, r) \cap p.mask # {}}
                      done == IF hit(rep) = {} THEN <<>>
                              ELSE <<[user_data |-> (CHOOSE p \in hit(rep) : TRUE).token,
                                      result |-> 1]>>
                  IN  /\ loop.cq \o done # <<>>
                      /\ rep => hit(FALSE) = {} /\ hit(TRUE) # {}
                      /\ events' = loop.cq \o done
                      /\ loop' = UringDispatch([loop EXCEPT !.cq = <<>>,
                                                           !.polls = @ \ hit(rep)],
                                               events')
    /\ pc' = "top"
    /\ UNCHANGED <<frame, run_result, wait_until, stop_pc, front, now, sleeper,
                   timerfd, co, sock, qw, rs, ufd, twin, tk>>

\* steady_clock advances while a frame of the task or a parked waiter has a
\* deadline ahead
IoTick ==
    /\ now < MaxClock
    /\ \/ \E i \in DOMAIN co.stack :
             co.stack[i].deadline # nullopt /\ now < co.stack[i].deadline
       \/ \E fd \in DOMAIN loop.waiters :
             \E reg \in {loop.waiters[fd].readable, loop.waiters[fd].writable} :
                 reg.handle # 0 /\ reg.deadline # nullopt /\ now < reg.deadline
    /\ now' = now + ClockStep
    /\ UNCHANGED <<loop, frame, pc, run_result, wait_until, events, stop_pc, front,
                   sleeper, timerfd, spurious, co, sock, qw, rs, ufd, twin, tk>>

\* the peer and the kernel: a byte arrives, the peer closes, the connection
\* is reset, the send buffer drains, a send takes nothing
PeerSend ==
    /\ co.st = "live"
    /\ sock.arrived < MaxStream /\ ~sock.eof /\ sock.err = 0
    /\ sock' = [sock EXCEPT !.rx = Append(@, sock.arrived + 1), !.arrived = @ + 1]
    /\ UNCHANGED <<loop, frame, pc, run_result, wait_until, events, stop_pc, front,
                   now, sleeper, timerfd, spurious, co, qw, rs, ufd, twin, tk>>

PeerClose ==
    /\ co.st = "live"
    /\ ~sock.eof /\ sock.err = 0
    /\ sock' = [sock EXCEPT !.eof = TRUE]
    /\ UNCHANGED <<loop, frame, pc, run_result, wait_until, events, stop_pc, front,
                   now, sleeper, timerfd, spurious, co, qw, rs, ufd, twin, tk>>

PeerReset ==
    /\ co.st = "live"
    /\ sock.err = 0
    /\ sock' = [sock EXCEPT !.err = EIO]
    /\ UNCHANGED <<loop, frame, pc, run_result, wait_until, events, stop_pc, front,
                   now, sleeper, timerfd, spurious, co, qw, rs, ufd, twin, tk>>

PeerDrain ==
    /\ co.st = "live"
    /\ sock.space < MaxSpace /\ sock.err = 0
    /\ sock' = [sock EXCEPT !.space = @ + 1]
    /\ UNCHANGED <<loop, frame, pc, run_result, wait_until, events, stop_pc, front,
                   now, sleeper, timerfd, spurious, co, qw, rs, ufd, twin, tk>>

SendTakesNothing ==
    /\ co.st = "live"
    /\ ~sock.wzero /\ sock.err = 0
    /\ sock' = [sock EXCEPT !.wzero = TRUE]
    /\ UNCHANGED <<loop, frame, pc, run_result, wait_until, events, stop_pc, front,
                   now, sleeper, timerfd, spurious, co, qw, rs, ufd, twin, tk>>

IoNext ==
    \/ IoSpawnTimed
    \/ IoSpawnExact
    \/ IoCancel
    \/ RunCall
    \/ RunEnter
    \/ LoopTop
    \/ DrainPop
    \/ IoResume
    \/ CheckIdle
    \/ IoWaitEvents
    \/ WaitTimeout
    \/ RunExit
    \/ IoTick
    \/ PeerSend
    \/ PeerClose
    \/ PeerReset
    \/ PeerDrain
    \/ SendTakesNothing

IoSpec == Init /\ [][IoNext]_vars

\* the driver thread keeps stepping and the clock keeps advancing
FairIoSpec ==
    /\ Init /\ [][IoNext]_vars
    /\ WF_pc(LoopThreadMoves)
    /\ WF_vars(IoTick)

\* ---------------------------------------------------- queued_writer actions
Marks == {[low |-> 0, high |-> 0], [low |-> 1, high |-> MaxMark]}
FlushTimeouts == {-1, 0, kIoSliceMs}

\* the next n bytes of the caller
Fresh(Q, n) == [i \in 1..n |-> Q.fed + i]

\* queued_writer writer(std::move(stream), marks)
WriterCtor ==
    /\ ~qw.built
    /\ \E marks \in Marks : qw' = queued_writer_ctor(qw, marks)
    /\ UNCHANGED <<loop, frame, pc, run_result, wait_until, events, stop_pc, front,
                   now, sleeper, timerfd, spurious, co, sock, rs, ufd, twin, tk>>

\* writer.enqueue(bytes), called on the loop thread between two resumes or
\* outside run(); the caller's bytes carry consecutive numbers
WriterEnqueue ==
    /\ qw.built
    /\ pc \in {"idle", "drain"}
    /\ \E n \in 0..2, moved \in BOOLEAN :
          /\ qw.fed + n <= MaxFed
          /\ qw' = enqueue(qw, Fresh(qw, n), moved).qw
    /\ UNCHANGED <<loop, frame, pc, run_result, wait_until, events, stop_pc, front,
                   now, sleeper, timerfd, spurious, co, sock, rs, ufd, twin, tk>>

\* spawn(writer.flush(timeout, token)) or
\* spawn(writer.graceful_shutdown(timeout, token))
WriterSpawn ==
    /\ qw.built
    /\ pc = "idle"
    /\ co.st = "unspawned"
    /\ \E timeout \in FlushTimeouts, fn \in {"flush", "graceful_shutdown"} :
          co' = Spawned(co, [CoFrame(fn) EXCEPT !.timeout = timeout], <<>>, now)
    /\ loop' = spawn(loop, 1)
    /\ UNCHANGED <<frame, pc, run_result, wait_until, events, stop_pc, front, now,
                   sleeper, timerfd, spurious, sock, qw, rs, ufd, twin, tk>>

\* run() has returned from a flush and its locals are gone; the program
\* spawns another task with a fresh token and calls run() again.  No deadline
\* is pending, and steady_clock is read from here on as the time since this
\* point
WriterAgain ==
    /\ pc = "returned"
    /\ co.st = "done"
    /\ co.op.fn = "flush"
    /\ co.round < MaxRounds
    /\ co' = [NewTask EXCEPT !.round = co.round + 1]
    /\ pc' = "idle"
    /\ run_result' = nullopt
    /\ wait_until' = nullopt
    /\ now' = 0
    /\ UNCHANGED <<loop, frame, events, stop_pc, front, sleeper,
                   timerfd, spurious, sock, qw, rs, ufd, twin, tk>>

\* steady_clock advances by one wait slice while a deadline is ahead
WriterTick ==
    /\ now + kIoSliceMs <= MaxClock
    /\ \/ \E i \in DOMAIN co.stack :
             co.stack[i].deadline # nullopt /\ now < co.stack[i].deadline
       \/ \E fd \in DOMAIN loop.waiters :
             \E reg \in {loop.waiters[fd].readable, loop.waiters[fd].writable} :
                 reg.handle # 0 /\ reg.deadline # nullopt /\ now < reg.deadline
    /\ now' = now + kIoSliceMs
    /\ UNCHANGED <<loop, frame, pc, run_result, wait_until, events, stop_pc, front,
                   sleeper, timerfd, spurious, co, sock, qw, rs, ufd, twin, tk>>

\* one run() with one flush or graceful_shutdown, on either loop
WriterNext ==
    \/ WriterCtor
    \/ WriterEnqueue
    \/ WriterSpawn
    \/ IoCancel
    \/ RunCall
    \/ RunEnter
    \/ LoopTop
    \/ DrainPop
    \/ IoResume
    \/ CheckIdle
    \/ IoWaitEvents
    \/ WaitTimeout
    \/ RunExit
    \/ WriterTick
    \/ PeerReset
    \/ PeerDrain

WriterSpec == Init /\ [][WriterNext]_vars

\* the writer is flushed again after a run() that a flush ended, on the epoll
\* loop: the queue a flush leaves behind is what the next flush starts from
RefillInit == Init /\ loop.backend = "epoll"

RefillNext ==
    \/ WriterNext
    \/ WriterAgain

RefillSpec == RefillInit /\ [][RefillNext]_vars

\* writer.enqueue(bytes); spawn(writer.flush(timeout, token)) with a timeout
\* longer than one write slice
FlushSpawnLong ==
    /\ qw.built
    /\ pc = "idle"
    /\ co.st = "unspawned"
    /\ \E n \in 1..2 : qw' = enqueue(qw, Fresh(qw, n), TRUE).qw
    /\ co' = Spawned(co, [CoFrame("flush") EXCEPT !.timeout = MaxFlushTimeout], <<>>, now)
    /\ loop' = spawn(loop, 1)
    /\ UNCHANGED <<frame, pc, run_result, wait_until, events, stop_pc, front, now,
                   sleeper, timerfd, spurious, sock, rs, ufd, twin, tk>>

\* steady_clock advances by one write slice of flush while a deadline is ahead
SliceTick ==
    /\ now + kFlushSliceMs <= MaxClock
    /\ \/ \E i \in DOMAIN co.stack :
             co.stack[i].deadline # nullopt /\ now < co.stack[i].deadline
       \/ \E fd \in DOMAIN loop.waiters :
             \E reg \in {loop.waiters[fd].readable, loop.waiters[fd].writable} :
                 reg.handle # 0 /\ reg.deadline # nullopt /\ now < reg.deadline
    /\ now' = now + kFlushSliceMs
    /\ UNCHANGED <<loop, frame, pc, run_result, wait_until, events, stop_pc, front,
                   sleeper, timerfd, spurious, co, sock, qw, rs, ufd, twin, tk>>

LongFlushNext ==
    \/ WriterCtor
    \/ FlushSpawnLong
    \/ IoCancel
    \/ RunCall
    \/ RunEnter
    \/ LoopTop
    \/ DrainPop
    \/ IoResume
    \/ CheckIdle
    \/ IoWaitEvents
    \/ WaitTimeout
    \/ RunExit
    \/ SliceTick
    \/ PeerReset
    \/ PeerDrain

LongFlushSpec == Init /\ [][LongFlushNext]_vars

\* ---------------------------------------------------- async_resolve actions
\* spawn(async_resolve(host, service, token))
ResolveSpawn ==
    /\ pc = "idle"
    /\ co.st = "unspawned"
    /\ co' = Spawned(co, CoFrame("async_resolve"), <<>>, now)
    /\ loop' = spawn(loop, 1)
    /\ UNCHANGED <<frame, pc, run_result, wait_until, events, stop_pc, front, now,
                   sleeper, timerfd, spurious, sock, qw, rs, ufd, twin, tk>>

\* the inner while of run() resuming a frame of the resolving task
ResolveResume ==
    /\ pc = "resume"
    /\ front = Len(co.stack)
    /\ LET X == co_resume([co |-> co, sock |-> sock, qw |-> qw, loop |-> loop,
                           tfd |-> timerfd, rs |-> rs], now)
           L1 == cleanup_completed_roots(X.loop, IoDone(X.co))
       IN  /\ \E order \in Orders(DOMAIN L1.waiters) :
                 /\ loop' = process_expired_waiters(L1, now, order)
                 /\ pc' = IF StopOrError(loop') THEN "exit" ELSE "drain"
           /\ co' = X.co
           /\ timerfd' = X.tfd
           /\ rs' = X.rs
    /\ front' = 0
    /\ UNCHANGED <<frame, run_result, wait_until, events, stop_pc, now, sleeper,
                   spurious, sock, qw,
                   ufd, twin, tk>>

\* resolver_worker::run: the worker thread wakes up and takes the front job
WorkerTake ==
    /\ rs.worker = "waiting"
    /\ rs.jobs # <<>>
    /\ rs' = [rs EXCEPT !.jobs = Tail(@), !.worker = "has_job"]
    /\ UNCHANGED <<loop, frame, pc, run_result, wait_until, events, stop_pc, front,
                   now, sleeper, timerfd, spurious, co, sock, qw,
                   ufd, twin, tk>>

\* resolver_worker::run: the worker loads the job's cancel flag; set, it
\* publishes ECANCELED; clear, it calls the platform resolver
WorkerCheck ==
    /\ rs.worker = "has_job"
    /\ rs' = IF rs.canceled
             THEN [rs EXCEPT !.result = Result(ECANCELED, 0), !.ready = TRUE,
                             !.worker = "waiting"]
             ELSE [rs EXCEPT !.worker = "resolving", !.lookups = @ + 1]
    /\ UNCHANGED <<loop, frame, pc, run_result, wait_until, events, stop_pc, front,
                   now, sleeper, timerfd, spurious, co, sock, qw,
                   ufd, twin, tk>>

\* resolver_worker::run: getaddrinfo has returned, with endpoints or with an
\* error, and the worker publishes the result
WorkerPublish ==
    /\ rs.worker = "resolving"
    /\ \E res \in {Result(ok, 1), Result(ENOENT, 0)} :
          rs' = [rs EXCEPT !.result = res, !.ready = TRUE, !.worker = "waiting"]
    /\ UNCHANGED <<loop, frame, pc, run_result, wait_until, events, stop_pc, front,
                   now, sleeper, timerfd, spurious, co, sock, qw,
                   ufd, twin, tk>>

ResolveNext ==
    \/ ResolveSpawn
    \/ IoCancel
    \/ RunCall
    \/ RunEnter
    \/ LoopTop
    \/ DrainPop
    \/ ResolveResume
    \/ CheckIdle
    \/ SleepWaitEvents
    \/ RunExit
    \/ SleepTick
    \/ WorkerTake
    \/ WorkerCheck
    \/ WorkerPublish

ResolveSpec == Init /\ [][ResolveNext]_vars

\* ================================================================= claims
Parked(L, fd, readable) ==
    /\ fd \in DOMAIN L.waiters
    /\ (IF readable THEN L.waiters[fd].readable.handle
        ELSE L.waiters[fd].writable.handle) # 0

RegOf(L, fd, readable) ==
    IF readable THEN L.waiters[fd].readable ELSE L.waiters[fd].writable

\* the batch holds a readiness event for the read side of fd: an epoll event
\* on fd within kReadReadyMask, or the completion of the registration's
\* own read poll
ReadEventFor(L, batch, fd, token) ==
    \E i \in DOMAIN batch :
        IF L.backend = "epoll"
        THEN batch[i].fd = fd /\ has_event(batch[i].events, kReadReadyMask)
        ELSE batch[i].user_data = token

C2_DeadlockExactly ==
    [][/\ (run_result' = EDEADLK /\ run_result # EDEADLK)
           => (/\ pc = "drain" /\ pc' = "returned"
               /\ ~loop.stop_requested /\ loop.loop_error = 0
               /\ loop.ready_queue = <<>>
               /\ loop.pending_waiter_count = 0
               /\ loop.waiters = EmptyMap
               /\ loop.active_task_count > 0
               /\ loop' = loop)
       /\ (/\ pc = "drain" /\ pc' # "drain"
           /\ ~loop.stop_requested /\ loop.loop_error = 0
           /\ loop.ready_queue = <<>>
           /\ loop.pending_waiter_count = 0
           /\ loop.active_task_count > 0)
           => (run_result' = EDEADLK /\ pc' = "returned")
       /\ (run_result' # run_result /\ run_result' # EDEADLK)
           => (pc = "exit" /\ run_result' = loop'.loop_error)]_vars

\* run() has returned EDEADLK with a root task suspended outside the loop
C2_Witness ==
    /\ pc = "returned"
    /\ run_result = EDEADLK
    /\ \E h \in Handles : frame[h].st = "blocked"

AllRootsDone == \A h \in Handles : frame[h].st \in {"unspawned", "done"}

NoneParked == \A fd \in Fds : \A rd \in BOOLEAN : ~Parked(loop, fd, rd)

\* C3: once run() has been called, every spawned root has reached its final
\* suspend and every registration has been resolved, run() eventually
\* returns ok, nobody having called stop(), with an empty root list and
\* both counters at zero.
C3_CleanExit ==
    (pc # "idle" /\ AllRootsDone /\ NoneParked)
    ~> (/\ pc = "returned"
        /\ run_result = ok
        /\ stop_pc = "idle"
        /\ loop.root_tasks = <<>>
        /\ loop.active_task_count = 0
        /\ loop.pending_waiter_count = 0)

\* run() returned ok after two roots, one of which waited, ran to completion
C3_Witness ==
    /\ pc = "returned"
    /\ run_result = ok
    /\ stop_pc = "idle"
    /\ \A h \in Handles : frame[h].st = "done"
    /\ \E h \in Handles : frame[h].outcome \in {ok, ETIMEDOUT}
    /\ loop.root_tasks = <<>>

\* C4: a stop() whose store lands while run() is blocked in the reactor
\* wait makes run() return ok with no latched loop error, whatever roots
\* and waiters remain; the two steps of stop() change nothing but the stop
\* flag and the wake fd's counter.
C4_StopWhileBlocked ==
    /\ [][stop_pc' # stop_pc =>
             /\ \/ stop_pc = "idle" /\ loop' = [loop EXCEPT !.stop_requested = TRUE]
                \/ stop_pc = "write" /\ loop' = [loop EXCEPT !.wake_count = @ + 1]
             /\ UNCHANGED <<frame, pc, run_result, wait_until, events, front, now, rs, ufd, twin, tk>>]_vars
    /\ (pc = "wait" /\ loop.stop_requested)
          ~> (pc = "returned" /\ run_result = ok /\ loop.loop_error = 0)

\* run() returned ok after a stop() that found it blocked, with a root
\* and a parked waiter left behind
C4_Witness ==
    /\ pc = "returned"
    /\ run_result = ok
    /\ stop_pc = "done"
    /\ loop.loop_error = 0
    /\ loop.root_tasks # <<>>
    /\ ~NoneParked
    /\ loop.wake_count = 0

Slots == Fds \X BOOLEAN

TimedParked(L, sl) ==
    Parked(L, sl[1], sl[2]) /\ RegOf(L, sl[1], sl[2]).deadline # nullopt

\* C5: of two parked timed waiters with deadlines d1 < d2, in one loop, on
\* different descriptors or on the two directions of one descriptor, the
\* frame with deadline d2 is never queued by an expiry sweep unless the
\* frame with deadline d1 stands before it in the ready queue.
C5_EarlierDeadlineQueuedFirst ==
    [][\A s1, s2 \in Slots :
          (/\ TimedParked(loop, s1) /\ TimedParked(loop, s2)
           /\ RegOf(loop, s1[1], s1[2]).deadline < RegOf(loop, s2[1], s2[2]).deadline
           /\ pc # "wait"
           /\ ~InSeq(loop.ready_queue, RegOf(loop, s2[1], s2[2]).handle)
           /\ InSeq(loop'.ready_queue, RegOf(loop, s2[1], s2[2]).handle))
          => (/\ InSeq(loop'.ready_queue, RegOf(loop, s1[1], s1[2]).handle)
              /\ IndexOf(loop'.ready_queue, RegOf(loop, s1[1], s1[2]).handle)
                    < IndexOf(loop'.ready_queue, RegOf(loop, s2[1], s2[2]).handle))]_vars

\* the frames that hold a registration
ParkedHandles(L) ==
    {RegOf(L, sl[1], sl[2]).handle : sl \in {x \in Slots : Parked(L, x[1], x[2])}}

\* C6: a registration, once armed, stays as it is until it is resolved; the
\* step that resolves it queues its frame exactly once and stores one
\* outcome for it: in an expiry sweep the timeout error its frame passed
\* when arming (and only at or after the deadline), in an epoll dispatch
\* ok; a frame that has been queued holds no registration and is queued
\* once, so no second resolution can follow.
C6_ResolvedExactlyOnce ==
    [][/\ \A sl \in Slots :
            Parked(loop, sl[1], sl[2]) =>
              LET reg == RegOf(loop, sl[1], sl[2])
                  h == reg.handle
              IN  \/ Parked(loop', sl[1], sl[2]) /\ RegOf(loop', sl[1], sl[2]) = reg
                  \/ /\ ~Parked(loop', sl[1], sl[2])
                     /\ Occurrences(loop'.ready_queue, h)
                           = Occurrences(loop.ready_queue, h) + 1
                     /\ h \in DOMAIN loop'.wait_results
                     /\ IF pc = "wait"
                        THEN loop.backend = "epoll" => loop'.wait_results[h] = ok
                        ELSE /\ reg.deadline # nullopt /\ now >= reg.deadline
                             /\ loop'.wait_results[h] = TimeoutErrorOf(h)
                             /\ reg.timeout_error = TimeoutErrorOf(h)
       /\ \A h \in Handles :
            /\ Occurrences(loop'.ready_queue, h) <= 1
            /\ InSeq(loop'.ready_queue, h) => h \notin ParkedHandles(loop')
            /\ Cardinality({sl \in Slots : /\ Parked(loop', sl[1], sl[2])
                                           /\ RegOf(loop', sl[1], sl[2]).handle = h}) <= 1]_vars

\* a frame that armed with operation_canceled as its timeout error has been
\* queued by an expiry sweep carrying that error
C6_Witness ==
    /\ \E h \in Handles :
          /\ InSeq(loop.ready_queue, h)
          /\ frame[h].st = "awaiting"
          /\ frame[h].aw.timeout # nullopt /\ frame[h].aw.timeout > 0
          /\ h \in DOMAIN loop.wait_results
          /\ loop.wait_results[h] = ECANCELED
          /\ TimeoutErrorOf(h) = ECANCELED

\* arming (fd, readable) over an existing registration with one of the
\* timeouts in ts is refused with EBUSY and changes nothing in the loop
\* (registration, counters, deadline index, kernel interest, submission
\* queue); arming the free opposite direction is accepted and leaves the
\* existing registration alone
BusySlotRefused(ts) ==
    \A sl \in Slots : \A t \in ts : \A h \in Handles :
        Parked(loop, sl[1], sl[2]) =>
          /\ arm_waiter(loop, now, sl[1], h, sl[2], t, TimeoutErrorOf(h))
                = Ret(loop, EBUSY)
          /\ (~Parked(loop, sl[1], ~sl[2]) /\ h \notin ParkedHandles(loop)) =>
                LET r == arm_waiter(loop, now, sl[1], h, ~sl[2], t, TimeoutErrorOf(h))
                IN  /\ r.st = ok
                    /\ RegOf(r.L, sl[1], sl[2]) = RegOf(loop, sl[1], sl[2])
                    /\ t # nullopt /\ t <= 0 => r.L.waiters = loop.waiters
                    /\ ~(t # nullopt /\ t <= 0) =>
                          /\ RegOf(r.L, sl[1], ~sl[2]).handle = h
                          /\ r.L.pending_waiter_count = loop.pending_waiter_count + 1

\* C7 as stated: for every timeout a caller may pass, zero included.
C7_BusySlotRefusedAnyTimeout == BusySlotRefused(Timeouts)

\* C7, amended: for an absent or a positive timeout.  (A timeout of zero or
\* less takes the fast path of arm_waiter before the slot is looked at.)
C7_BusySlotRefused == BusySlotRefused(Timeouts \ {0})

\* a frame armed a slot that held another frame's registration, got EBUSY
\* from await_suspend and returned it, the registration still being there
C7_Witness ==
    \E h \in Handles :
        /\ frame[h].st = "done"
        /\ frame[h].outcome = EBUSY
        /\ ~NoneParked

\* sleepers of interest
Returned(i) == sleeper[i].st = "done"
InSleep(i) == sleeper[i].st \notin {"unspawned", "done"}

\* C8: async_sleep(d) with d > 0 whose token is never cancelled returns ok
\* only at a time >= call time + d, whatever slice wake-ups and reports of
\* the timer descriptor without an expiration came before, and once run()
\* drives it, it eventually returns.
C8_SleepNeverEarlyAndReturns ==
    /\ [](\A i \in Sleepers :
            (Returned(i) /\ sleeper[i].result = ok /\ sleeper[i].duration > 0)
                => now >= sleeper[i].called + sleeper[i].duration)
    /\ \A i \in Sleepers :
          (InSleep(i) /\ pc # "idle") ~> (Returned(i) \/ sleeper[i].cancelled)

\* a sleep longer than one slice returned ok after a report of the timer
\* descriptor that had nothing to read
C8_Witness ==
    \E i \in Sleepers :
        /\ Returned(i) /\ sleeper[i].result = ok /\ ~sleeper[i].cancelled
        /\ sleeper[i].duration > kSliceMs
        /\ spurious > 0

\* C9: a sleep that returns after its token was cancelled returns ECANCELED.
C9_CancelledReturnsECANCELED ==
    \A i \in Sleepers :
        (Returned(i) /\ sleeper[i].cancelled) => sleeper[i].result = ECANCELED

\* C10: sleepers of one loop whose tokens are not cancelled all return ok.
C10_ConcurrentSleepersReturnOk ==
    \A i \in Sleepers :
        (Returned(i) /\ ~sleeper[i].cancelled) => sleeper[i].result = ok

\* the root of the I/O task returns in this step
IoReturns == co.st = "live" /\ co'.st = "done"
TimedOp == co.op.fn \in {"async_read_some_with_timeout", "async_write_some_with_timeout"}
\* the attempt the timed operation makes in this state would not block
SockReady ==
    IF co.op.fn = "async_read_some_with_timeout" THEN SockReadable(sock)
    ELSE SockWritable(sock)
\* what the attempt on a ready socket yields
Attempt ==
    IF co.op.fn = "async_read_some_with_timeout" THEN read_some(sock, co.op.len).r
    ELSE write_some(sock, co.op.span).r

\* C11: a timed read or write with timeout >= 0 returns ETIMEDOUT only from
\* an attempt that would block at a time >= call time + timeout, and it does
\* return; the timeout of a wait slice never ends it; on a socket that is
\* ready it returns what the attempt yields (a byte count for data); with
\* the token cancelled at a loop turn it returns ECANCELED.
C11_TimedIoEndsAtDeadline ==
    /\ [][(IoReturns /\ TimedOp /\ co.op.timeout >= 0) =>
            /\ co.cancelled => co'.result = Result(ECANCELED, 0)
            /\ (~co.cancelled /\ SockReady) => co'.result = Attempt
            /\ (~co.cancelled /\ ~SockReady) =>
                  /\ co'.result = Result(ETIMEDOUT, 0)
                  /\ now >= co.called + co.op.timeout]_vars
    /\ (co.st = "live" /\ TimedOp /\ pc # "idle") ~> (co.st = "done")

\* a read with a timeout longer than one wait slice timed out
C11_Witness ==
    /\ co.st = "done" /\ co.op.fn = "async_read_some_with_timeout"
    /\ co.op.timeout > kIoSliceMs
    /\ co.result = Result(ETIMEDOUT, 0)
    /\ ~co.cancelled

\* bytes of the stream the task has taken out of the socket
Consumed == sock.arrived - Len(sock.rx)

\* C12: async_read_exact returns ok only with exactly buf.size() bytes of the
\* stream stored in stream order, without gap, overlap or re-read across
\* partial reads and waits; it returns ECONNRESET when a read yields 0 bytes
\* before the buffer is full, never EAGAIN, and ok without reading for an
\* empty buffer. async_write_all is symmetric, with EPIPE for a write of 0.
C12_ExactTransfer ==
    /\ [](co.op.fn = "async_read_exact" =>
            /\ Consumed <= co.op.len
            /\ co.buf = [i \in 1..co.op.len |-> IF i <= Consumed THEN i ELSE 0]
            /\ co.st = "done" =>
                  /\ co.result.err \in {ok, ECONNRESET, EIO}
                  /\ co.result.err = ok => Consumed = co.op.len
                  /\ co.result.err = ECONNRESET =>
                        sock.eof /\ sock.rx = <<>> /\ Consumed < co.op.len
                  /\ co.result.err = EIO => sock.err = EIO
                  /\ co.op.len = 0 => co.result.err = ok)
    /\ [](co.op.fn = "async_write_all" =>
            /\ sock.wire = SubSeq(co.op.span, 1, Len(sock.wire))
            /\ co.st = "done" =>
                  /\ co.result.err \in {ok, EPIPE, EIO}
                  /\ co.result.err = ok => sock.wire = co.op.span
                  /\ co.result.err = EPIPE => Len(sock.wire) < Len(co.op.span)
                  /\ co.result.err = EIO => sock.err = EIO
                  /\ co.op.span = <<>> => co.result.err = ok)
    /\ [][(co.st = "live" /\ Len(co.stack) = 1 /\ co.stack[1].at = "awaiting"
             /\ co.stack[1].ret = Result(ok, 0) /\ co' # co) =>
            \/ co.op.fn = "async_read_exact" /\ co'.result = Result(ECONNRESET, 0)
            \/ co.op.fn = "async_write_all" /\ co'.result = Result(EPIPE, 0)
            \/ co.op.fn \notin {"async_read_exact", "async_write_all"}
            \/ co'.cancelled # co.cancelled]_vars

\* a read of MaxBuf bytes completed after a wake-up that found nothing to read
C12_Witness ==
    /\ co.st = "done" /\ co.op.fn = "async_read_exact" /\ co.op.len = MaxBuf
    /\ co.result.err = ok
    /\ spurious > 0

\* the bytes still queued, in order: the buffers of the queue without the
\* first front_offset bytes of the front buffer
RECURSIVE Flat(_)
Flat(q) == IF q = <<>> THEN <<>> ELSE Head(q) \o Flat(Tail(q))
Pending(Q) ==
    LET all == Flat(Q.queue) IN SubSeq(all, Q.front_offset + 1, Len(all))

Refused(Q) == Q.high_watermark_active /\ Q.queued_bytes >= Q.marks.low

\* C13: enqueue of a non-empty buffer is refused with EWOULDBLOCK exactly
\* when high_watermark_active is set and queued_bytes >= low, and then the
\* writer is unchanged; otherwise the buffer is appended at the back,
\* queued_bytes grows by its size, the flag becomes true if queued_bytes >=
\* high, and the returned state is high_watermark iff the flag is then true.
\* The copying and the moving overload give the same result.
C13_EnqueueRefusedAtHighWatermark ==
    qw.built =>
        \A n \in 1..2 :
            LET bytes == Fresh(qw, n)
                e == enqueue(qw, bytes, TRUE)
                Q == e.qw
            IN  /\ e = enqueue(qw, bytes, FALSE)
                /\ (e.err = EAGAIN) <=> Refused(qw)
                /\ Refused(qw) => Q = qw
                /\ ~Refused(qw) =>
                      /\ e.err = ok
                      /\ Q.queue = Append(qw.queue, bytes)
                      /\ Q.queued_bytes = qw.queued_bytes + n
                      /\ Q.front_offset = qw.front_offset
                      /\ Q.high_watermark_active =
                            (qw.high_watermark_active \/ Q.queued_bytes >= qw.marks.high)
                      /\ e.state = IF Q.high_watermark_active
                                   THEN "high_watermark" ELSE "normal"

\* a flush has drained part of the queue and enqueue is still refused
C13_Witness ==
    /\ qw.built /\ Refused(qw)
    /\ Len(sock.wire) > 0
    /\ enqueue(qw, Fresh(qw, 1), FALSE).err = EAGAIN

\* C14: high_watermark_active is false whenever queued_bytes < low; the flag
\* is cleared only by a step that drains queued_bytes down to low or below,
\* never by an enqueue, and a drain to a level above low keeps the flag set
\* and enqueues refused.
C14_FlagStickyDownToLow ==
    /\ [](qw.high_watermark_active => qw.queued_bytes >= qw.marks.low)
    /\ [][/\ (qw.high_watermark_active /\ ~qw'.high_watermark_active) =>
                (qw'.queued_bytes < qw.queued_bytes
                    /\ qw'.queued_bytes <= qw.marks.low)
          /\ (qw.high_watermark_active /\ qw'.queued_bytes < qw.queued_bytes
                    /\ qw'.queued_bytes > qw.marks.low) =>
                (qw'.high_watermark_active
                    /\ enqueue(qw', Fresh(qw', 1), TRUE).err = EAGAIN)]_vars

\* drained to a level strictly between low and high with the flag still set
C14_Witness ==
    /\ qw.high_watermark_active
    /\ qw.marks.low < qw.queued_bytes /\ qw.queued_bytes < qw.marks.high
    /\ Len(sock.wire) > 0

\* the step in which flush returns, as a root task or to graceful_shutdown
FlushReturns ==
    \/ co.op.fn = "flush" /\ IoReturns
    \/ /\ co.op.fn = "graceful_shutdown"
       /\ Len(co.stack) = 2 /\ co.stack[2].fn = "flush"
       /\ co'.st = "live" /\ Len(co'.stack) = 1
\* what it returns in that step
FlushResult == IF co.op.fn = "flush" THEN co'.result ELSE co'.stack[1].ret

\* C15: flush returns ok only when the queue is drained completely: then
\* queued_bytes = 0, the queue is empty, front_offset = 0, the flag is false,
\* and an enqueue of a non-empty buffer smaller than high is accepted and
\* returns state normal.
C15_FlushOkMeansDrained ==
    [][(FlushReturns /\ FlushResult.err = ok) =>
          /\ qw'.queued_bytes = 0
          /\ qw'.queue = <<>>
          /\ qw'.front_offset = 0
          /\ ~qw'.high_watermark_active
          /\ \A n \in 1..2 :
                n < qw'.marks.high =>
                    LET e == enqueue(qw', Fresh(qw', n), TRUE)
                    IN  e.err = ok /\ e.state = "normal"]_vars

\* a flush that started above the high watermark wrote everything and
\* returned ok
C15_Witness ==
    /\ co.st = "done" /\ co.op.fn = "flush" /\ co.result.err = ok
    /\ qw.marks.high = MaxMark
    /\ Len(sock.wire) = MaxMark
    /\ enqueue(qw, Fresh(qw, 2), TRUE).state = "normal"

\* bytes of the front buffer that a write has put on the wire and whose
\* count flush, not yet resumed, has still to take off the queue
Unacked ==
    IF co.st = "live" /\ co.stack[Len(co.stack)].fn = "flush"
          /\ co.stack[Len(co.stack)].at = "awaiting"
          /\ co.stack[Len(co.stack)].ret.err = ok
    THEN co.stack[Len(co.stack)].ret.n ELSE 0

\* C17: the bytes handed to the stream are the accepted buffers concatenated
\* in enqueue order: what is on the wire followed by what is still queued is
\* the caller's byte sequence, across partial writes and across flushes that
\* failed and were followed by further enqueues and flushes.
C17_WireIsAcceptedBytesInOrder ==
    /\ sock.wire \o SubSeq(Pending(qw), Unacked + 1, Len(Pending(qw))) = Payload(qw.fed)
    /\ qw.queued_bytes = Len(Pending(qw))

\* a first flush ended in the middle of the front buffer, a further buffer
\* is queued behind it, and a second flush is about to run
C17_Witness ==
    /\ co.round = 1 /\ co.st = "live" /\ co.op.fn = "flush"
    /\ co.stack = <<co.op>>
    /\ qw.front_offset > 0 /\ Len(qw.queue) = 2
    /\ Len(sock.wire) > 0

\* the step in which graceful_shutdown returns
ShutdownReturns == co.op.fn = "graceful_shutdown" /\ IoReturns

\* C18: graceful_shutdown shuts the write side down only after its flush
\* returned ok with queued_bytes = 0; when the flush returns an error, that
\* error is returned, shutdown_write is not called and the unsent bytes stay
\* queued.
C18_ShutdownOnlyAfterFlushOk ==
    /\ [][(~sock.shut_wr /\ sock'.shut_wr) =>
             /\ ShutdownReturns
             /\ Len(co.stack) = 1
             /\ co.stack[1].at = "awaiting" /\ co.stack[1].ret.err = ok]_vars
    /\ [][(co.op.fn = "graceful_shutdown" /\ FlushReturns /\ FlushResult.err = ok) =>
             (qw'.queued_bytes = 0 /\ ~sock'.shut_wr)]_vars
    /\ [][(ShutdownReturns /\ co.stack[1].ret.err # ok) =>
             /\ co'.result = co.stack[1].ret
             /\ co.stack[1].ret.err \in {EINVAL, ETIMEDOUT, ECANCELED, EPIPE, EIO}
             /\ sock' = sock
             /\ qw' = qw]_vars

\* graceful_shutdown returned the timeout of its flush after a partial write,
\* with bytes left in the queue and the write side open
C18_Witness ==
    /\ co.st = "done" /\ co.op.fn = "graceful_shutdown"
    /\ co.result.err = ETIMEDOUT
    /\ Len(sock.wire) > 0 /\ qw.queued_bytes > 0
    /\ ~sock.shut_wr

\* C16: flush(timeout) with timeout >= 0 returns ETIMEDOUT only when its
\* overall deadline, call time + timeout, has been reached while bytes are
\* still queued; a peer that stays unwritable for longer than one write slice
\* but for less than timeout does not make it fail.
C16_FlushTimesOutOnlyAtDeadline ==
    [][(co.op.fn = "flush" /\ IoReturns /\ co.op.timeout >= 0
            /\ co'.result.err = ETIMEDOUT) =>
          (now >= co.called + co.op.timeout /\ qw.queued_bytes > 0)]_vars

\* the first resume of async_resolve
ResolveStarts ==
    /\ co.st = "live" /\ co.op.fn = "async_resolve"
    /\ co.stack = <<co.op>>
    /\ co' # co

\* C19: async_resolve called with a token that is already cancelled returns
\* ECANCELED at once: no resolve_state is made, no job reaches the worker,
\* and the task does not wait.
C19_PreCancelledResolveDoesNotEnqueue ==
    [][(ResolveStarts /\ co.cancelled) =>
          /\ co'.st = "done"
          /\ co'.result = Result(ECANCELED, 0)
          /\ rs' = rs /\ ~rs.made /\ rs.jobs = <<>>
          /\ timerfd' = timerfd]_vars

\* run() has returned from a resolve that was cancelled before it started
C19_Witness ==
    /\ pc = "returned"
    /\ co.st = "done" /\ co.op.fn = "async_resolve"
    /\ co.result.err = ECANCELED
    /\ ~rs.made /\ rs.lookups = 0

\* C20: whenever async_resolve returns ECANCELED after it has enqueued a job,
\* the job's cancel flag is set when it returns, so a worker that has not yet
\* started the job publishes ECANCELED for it and does not call the platform
\* resolver.
C20_CancelFlagSetOnReturn ==
    /\ [][(IoReturns /\ co.op.fn = "async_resolve" /\ rs.made
              /\ co'.result.err = ECANCELED) => rs'.canceled]_vars
    /\ [][(co.st = "done" /\ co.op.fn = "async_resolve" /\ rs.made
              /\ co.result.err = ECANCELED /\ rs.worker = "has_job"
              /\ rs' # rs) =>
             (rs'.ready /\ rs'.result.err = ECANCELED /\ rs'.lookups = rs.lookups)]_vars

\* ================================================================ unique_fd
\* ::close(fd): the descriptor's close count (counted up to MaxCloses)
close(U, fd) ==
    [U EXCEPT !.closes[fd] = IF @ < MaxCloses THEN @ + 1 ELSE @]

\* unique_fd::valid
valid(U, o) == U.fd_[o] >= 0

\* unique_fd::release: the object gives the descriptor up, the caller gets it
release(U, o) ==
    [U |-> [U EXCEPT !.fd_[o] = -1], old_fd |-> U.fd_[o]]

\* unique_fd::reset without the test for the descriptor already held
reset_closes_same(U, o, fd) ==
    LET U1 == IF valid(U, o) THEN close(U, U.fd_[o]) ELSE U
    IN  [U1 EXCEPT !.fd_[o] = fd]

\* unique_fd::reset
reset(U, o, fd) ==
    IF U.fd_[o] = fd THEN U
    ELSE LET U1 == IF valid(U, o) THEN close(U, U.fd_[o]) ELSE U
         IN  [U1 EXCEPT !.fd_[o] = fd]

\* unique_fd::unique_fd(int)
unique_fd(U, o, fd) ==
    [U EXCEPT !.live = @ \cup {o}, !.fd_[o] = fd]

\* unique_fd::unique_fd(unique_fd&&)
unique_fd_move(U, o, other) ==
    LET r == release(U, other)
    IN  [r.U EXCEPT !.live = @ \cup {o}, !.fd_[o] = r.old_fd]

\* unique_fd::operator=(unique_fd&&)
move_assign(U, o, other) ==
    IF o # other
    THEN LET r == release(U, other) IN reset(r.U, o, r.old_fd)
    ELSE U

\* unique_fd::swap
swap(U, o, other) ==
    [U EXCEPT !.fd_[o] = U.fd_[other], !.fd_[other] = U.fd_[o]]

\* unique_fd::~unique_fd
destroy(U, o) ==
    [reset(U, o, -1) EXCEPT !.live = @ \ {o}]

\* a descriptor the program got from the kernel and has not yet given to a
\* unique_fd
Fresh_fd(U) == Descriptors \ U.adopted

\* everything but the unique_fd objects
NotFds == <<loop, frame, pc, run_result, wait_until, events, stop_pc, front, now,
            sleeper, timerfd, spurious, co, sock, qw, rs, twin, tk>>

\* unique_fd fd; or unique_fd fd{d}; with d a descriptor just opened
Adopt(o, fd) ==
    /\ o \notin ufd.live
    /\ fd \in {-1} \cup Fresh_fd(ufd)
    /\ ufd' = [unique_fd(ufd, o, fd) EXCEPT !.adopted = @ \cup ({fd} \ {-1})]
    /\ UNCHANGED NotFds

\* unique_fd o{std::move(other)};
MoveConstruct(o, other) ==
    /\ o \notin ufd.live
    /\ other \in ufd.live
    /\ ufd' = unique_fd_move(ufd, o, other)
    /\ UNCHANGED NotFds

\* o = std::move(other); with other possibly o itself
MoveAssign(o, other) ==
    /\ o \in ufd.live
    /\ other \in ufd.live
    /\ ufd' = move_assign(ufd, o, other)
    /\ UNCHANGED NotFds

\* o.reset(fd); with fd absent (-1), the descriptor o holds, or a
\* descriptor just opened
ResetCall(o, fd) ==
    /\ o \in ufd.live
    /\ fd \in {-1, ufd.fd_[o]} \cup Fresh_fd(ufd)
    /\ ufd' = [reset(ufd, o, fd) EXCEPT !.adopted = @ \cup ({fd} \ {-1})]
    /\ UNCHANGED NotFds

\* int fd = o.release(); the caller keeps fd
ReleaseCall(o) ==
    /\ o \in ufd.live
    /\ LET r == release(ufd, o)
       IN  ufd' = [r.U EXCEPT !.released = @ \cup ({r.old_fd} \ {-1})]
    /\ UNCHANGED NotFds

\* o.swap(other); with other possibly o itself
SwapCall(o, other) ==
    /\ o \in ufd.live
    /\ other \in ufd.live
    /\ ufd' = swap(ufd, o, other)
    /\ UNCHANGED NotFds

\* o goes out of scope
Destroy(o) ==
    /\ o \in ufd.live
    /\ ufd' = destroy(ufd, o)
    /\ UNCHANGED NotFds

FdNext ==
    \/ \E o \in Objects, fd \in {-1} \cup Descriptors : Adopt(o, fd)
    \/ \E o, other \in Objects : MoveConstruct(o, other)
    \/ \E o, other \in Objects : MoveAssign(o, other)
    \/ \E o \in Objects, fd \in {-1} \cup Descriptors : ResetCall(o, fd)
    \/ \E o \in Objects : ReleaseCall(o)
    \/ \E o, other \in Objects : SwapCall(o, other)
    \/ \E o \in Objects : Destroy(o)

FdSpec == Init /\ [][FdNext]_vars

\* the live objects that hold descriptor d
Holders(d) == {o \in ufd.live : ufd.fd_[o] = d}

\* C21: whatever sequence of constructions, moves, move assignments (of an
\* object to itself too), resets (to the descriptor held too), releases, swaps
\* and destructions a program makes, with every descriptor handed to a
\* unique_fd once: no descriptor is closed twice; a descriptor is closed
\* exactly when it was handed over, is held by no live object and was not
\* given back by release() (so with every object destroyed each descriptor
\* not released was closed exactly once); no two live objects hold the same
\* valid descriptor; and reset(-1) on an object that holds nothing closes
\* nothing.
C21_EachDescriptorClosedOnce ==
    /\ \A d \in Descriptors :
        /\ ufd.closes[d] <= 1
        /\ Cardinality(Holders(d)) <= 1
        /\ ufd.closes[d] = 1 <=>
              d \in ufd.adopted /\ Holders(d) = {} /\ d \notin ufd.released
        /\ d \in ufd.released => ufd.closes[d] = 0 /\ Holders(d) = {}
    /\ ufd.live = {} =>
          \A d \in ufd.adopted \ ufd.released : ufd.closes[d] = 1
    /\ \A o \in ufd.live :
          ~valid(ufd, o) => reset(ufd, o, -1) = ufd

\* every object destroyed again, one descriptor closed, the other released
\* and never closed
C21_Witness ==
    /\ ufd.live = {}
    /\ ufd.adopted = Descriptors
    /\ ufd.released = {1}
    /\ ufd.closes = [d \in Descriptors |-> IF d = 0 THEN 1 ELSE 0]

\* ======================================================= the two backends
\* run() of either loop as a function of the loop, its frames and its
\* position: the steps RunEnter, LoopTop, DrainPop, DrainStep, CheckIdle,
\* WaitEvents, WaitTimeout and RunExit take

\* the slots of the waiter map in the order the unordered_map hands them
\* out, given the order it would hand all descriptors out
SlotOrder(L, order) == SelectSeq(order, LAMBDA fd : fd \in DOMAIN L.waiters)

run_enter(M) ==
    [M EXCEPT !.loop = [@ EXCEPT !.stop_requested = FALSE, !.loop_error = 0],
              !.pc = "top"]

run_top(M, t, order) ==
    IF M.loop.stop_requested THEN [M EXCEPT !.pc = "exit"]
    ELSE LET L1 == process_expired_waiters(M.loop, t, SlotOrder(M.loop, order))
         IN  [M EXCEPT !.loop = L1, !.pc = IF StopOrError(L1) THEN "exit" ELSE "drain"]

run_pop(M) ==
    [M EXCEPT !.front = Head(M.loop.ready_queue),
              !.loop = [@ EXCEPT !.ready_queue = Tail(@)],
              !.pc = "resume"]

run_resume(M, op, t, order) ==
    IF M.front = 0 \/ M.frame[M.front].st = "done"
    THEN [M EXCEPT !.pc = "drain", !.front = 0]
    ELSE LET r == Resume(M.loop, M.frame, M.front, op, t)
             L1 == cleanup_completed_roots(r.L, Done(r.fr))
             L2 == process_expired_waiters(L1, t, SlotOrder(L1, order))
         IN  [M EXCEPT !.loop = L2, !.frame = r.fr, !.front = 0,
                       !.pc = IF StopOrError(L2) THEN "exit" ELSE "drain"]

run_idle(M, t) ==
    CASE IdleVerdict(M.loop) = "exit" -> [M EXCEPT !.pc = "exit"]
      [] IdleVerdict(M.loop) = "deadlock" ->
            [M EXCEPT !.pc = "returned", !.run_result = EDEADLK]
      [] IdleVerdict(M.loop) = "wait" ->
            [M EXCEPT !.pc = "wait",
                      !.wait_until = IF M.loop.next_deadline = nullopt THEN nullopt
                                     ELSE Max(t, M.loop.next_deadline),
                      !.loop = IF M.loop.backend = "uring" THEN flush_submissions(@).L
                               ELSE @]

\* completions of the polls in S with a positive result, in the order the
\* polls were armed
RECURSIVE ByToken(_)
ByToken(S) ==
    IF S = {} THEN <<>>
    ELSE LET p == CHOOSE q \in S : \A r \in S : q.token <= r.token
         IN  <<[user_data |-> p.token, result |-> 1]>> \o ByToken(S \ {p})

\* the completions the ring posts for the conditions in batch: per entry
\* those of the polls the condition satisfies, the read polls first
RECURSIVE Completions(_, _)
Completions(L, batch) ==
    IF batch = <<>> THEN <<>>
    ELSE LET e == Head(batch)
             Hit(mask) == {p \in L.polls :
                             p.fd = e.fd /\ p.mask = mask /\ has_event(e.events, mask)}
         IN  ByToken(Hit(kReadPollMask)) \o ByToken(Hit(kWritePollMask))
             \o Completions(L, Tail(batch))

\* what each reactor makes of the kernel reporting the conditions in batch
\* (descriptor and revents, one entry per descriptor): epoll_wait returns
\* the entries of registered descriptors within their interest mask, the
\* ring returns the completions already queued and then those of the
\* batch; either starts with the wake fd when its counter is not zero
Reported(L, batch) ==
    IF L.backend = "epoll"
    THEN (IF L.wake_count > 0 THEN <<[fd |-> WakeFd, events |-> {"IN"}]>> ELSE <<>>)
         \o SelectSeq(batch, LAMBDA e : /\ e.fd \in DOMAIN L.interest
                                         /\ e.events \subseteq L.interest[e.fd])
    ELSE L.cq \o ByToken({p \in L.polls : p.fd = WakeFd /\ L.wake_count > 0})
         \o Completions(L, batch)

\* the polls the kernel completed with the completions in cqes
Completed(L, cqes) ==
    {p \in L.polls : \E i \in DOMAIN cqes : cqes[i].user_data = p.token}

run_dispatch(M, batch) ==
    LET got == Reported(M.loop, batch)
    IN  IF M.loop.backend = "epoll"
        THEN [M EXCEPT !.loop = EventLoopDispatch(@, got), !.pc = "top"]
        ELSE [M EXCEPT !.loop = UringDispatch([@ EXCEPT !.cq = <<>>,
                                                         !.polls = @ \ Completed(M.loop, got)],
                                              got),
                       !.pc = "top"]

run_exit(M) ==
    LET L1 == cleanup_completed_roots(M.loop, Done(M.frame))
        fl == IF M.loop.backend = "uring" THEN flush_submissions(L1) ELSE Ret(L1, ok)
        L2 == IF fl.st # ok /\ fl.L.loop_error = 0
              THEN [fl.L EXCEPT !.loop_error = fl.st] ELSE fl.L
    IN  [M EXCEPT !.loop = L2, !.pc = "returned",
                  !.run_result = IF L2.loop_error # 0 THEN L2.loop_error ELSE ok]

\* the epoll loop of the variables as a machine, and the assignment back
Own == Machine(loop, frame, pc, run_result, wait_until, front)

Becomes(M) ==
    /\ loop' = M.loop
    /\ frame' = M.frame
    /\ pc' = M.pc
    /\ run_result' = M.run_result
    /\ wait_until' = M.wait_until
    /\ front' = M.front

\* the two loops: 1 the epoll loop of the variables, 2 the uring loop
Sides == {1, 2}
Side(i) == IF i = 1 THEN Own ELSE twin

\* both loops take the step whose results are R[1] and R[2]
Both(R) == Becomes(R[1]) /\ twin' = R[2]

\* conditions the kernel may report in one wait
KernelBatches ==
    {b \in Batches([fd : Fds, events : EventMasks], MaxBatch) :
        \A i, j \in DOMAIN b : i # j => b[i].fd # b[j].fd}

\* what is left unchanged by the steps of the two loops
PairRest == <<sleeper, timerfd, spurious, co, sock, qw, rs, ufd, tk>>

\* spawn(task) on both loops
PairSpawn(h) ==
    /\ pc = "idle" /\ twin.pc = "idle"
    /\ frame[h].st = "unspawned"
    /\ \A g \in 1..(h - 1) : frame[g].st # "unspawned"
    /\ loop' = spawn(loop, h)
    /\ frame' = [frame EXCEPT ![h].st = "initial"]
    /\ twin' = [twin EXCEPT !.loop = spawn(@, h), !.frame[h].st = "initial"]
    /\ UNCHANGED <<pc, run_result, wait_until, events, stop_pc, front, now, PairRest>>

\* run() is called on both
PairRunCall ==
    /\ pc = "idle" /\ twin.pc = "idle"
    /\ pc' = "enter"
    /\ twin' = [twin EXCEPT !.pc = "enter"]
    /\ UNCHANGED <<loop, frame, run_result, wait_until, events, stop_pc, front, now,
                   PairRest>>

PairEnter ==
    /\ pc = "enter" /\ twin.pc = "enter"
    /\ Both([i \in Sides |-> run_enter(Side(i))])
    /\ UNCHANGED <<events, stop_pc, now, PairRest>>

PairTop ==
    /\ pc = "top" /\ twin.pc = "top"
    /\ \E order \in Orders(Fds) :
          Both([i \in Sides |-> run_top(Side(i), now, order)])
    /\ events' = <<>>
    /\ UNCHANGED <<stop_pc, now, PairRest>>

PairPop ==
    /\ pc = "drain" /\ twin.pc = "drain"
    /\ loop.ready_queue # <<>> /\ twin.loop.ready_queue # <<>>
    /\ Both([i \in Sides |-> run_pop(Side(i))])
    /\ UNCHANGED <<events, stop_pc, now, PairRest>>

\* the frame popped is resumed; its body does the same on both loops
PairResume ==
    /\ pc = "resume" /\ twin.pc = "resume"
    /\ \E order \in Orders(Fds) :
        \E op \in IF front = 0 THEN {[kind |-> "finish"]}
                   ELSE BodyOps(frame[front], front, now) :
          Both([i \in Sides |-> run_resume(Side(i), op, now, order)])
    /\ UNCHANGED <<events, stop_pc, now, PairRest>>

PairIdle ==
    /\ pc = "drain" /\ twin.pc = "drain"
    /\ loop.ready_queue = <<>> /\ twin.loop.ready_queue = <<>>
    /\ Both([i \in Sides |-> run_idle(Side(i), now)])
    /\ UNCHANGED <<events, stop_pc, now, PairRest>>

\* the condition is one that a waiter armed on the loop waits for
Awaited(L, e) ==
    /\ e.fd \in DOMAIN L.waiters
    /\ \/ L.waiters[e.fd].readable.handle # 0 /\ has_event(e.events, kReadReadyMask)
       \/ L.waiters[e.fd].writable.handle # 0 /\ has_event(e.events, kWriteReadyMask)

\* the kernel reports readiness while both loops are blocked: each reactor
\* wait returns if it has something to return, and run() dispatches it (D).
\* When that wakes no frame and run() goes round (T) to block again (I) -
\* completions that name no waiter - the turn is taken whole.  When nothing
\* became ready and no stop() wrote to the wake fd, the ring may still wake
\* the uring loop with the completions it holds; that is taken when the
\* loop blocks again.
PairWaitEvents ==
    /\ pc = "wait" /\ twin.pc = "wait"
    /\ \E b \in KernelBatches, order \in Orders(Fds) :
        \E got \in {[i \in Sides |-> Reported(Side(i).loop, b)]} :
        \E D \in {[i \in Sides |-> run_dispatch(Side(i), b)]} :
        \E T \in {[i \in Sides |-> run_top(D[i], now, order)]} :
        \E I \in {[i \in Sides |-> run_idle(T[i], now)]} :
          LET R == [i \in Sides |->
                     IF got[i] = <<>> THEN Side(i)
                     ELSE IF /\ D[i].loop.ready_queue = <<>>
                             /\ T[i].pc = "drain" /\ T[i].loop.ready_queue = <<>>
                             /\ I[i].pc = "wait"
                     THEN I[i] ELSE D[i]]
          IN  /\ \A k \in DOMAIN b : \E i \in Sides : Awaited(Side(i).loop, b[k])
              /\ \E i \in Sides : got[i] # <<>>
              /\ (b = <<>> /\ loop.wake_count = 0 /\ twin.loop.wake_count = 0)
                    => R[2].pc = "wait"
              /\ Both(R)
              /\ events' = got[1]
    /\ UNCHANGED <<stop_pc, now, PairRest>>

\* a wait whose timeout has elapsed returns (the ring hands out what its
\* completion queue holds)
PairTimeout ==
    /\ pc = "wait" /\ twin.pc = "wait"
    /\ \/ wait_until # nullopt /\ now >= wait_until
       \/ twin.wait_until # nullopt /\ now >= twin.wait_until
    /\ pc' = IF wait_until # nullopt /\ now >= wait_until THEN "top" ELSE pc
    /\ twin' = IF twin.wait_until # nullopt /\ now >= twin.wait_until
               THEN run_dispatch(twin, <<>>) ELSE twin
    /\ events' = <<>>
    /\ UNCHANGED <<loop, frame, run_result, wait_until, stop_pc, front, now, PairRest>>

PairExit ==
    /\ pc = "exit" /\ twin.pc = "exit"
    /\ Both([i \in Sides |-> run_exit(Side(i))])
    /\ UNCHANGED <<events, stop_pc, now, PairRest>>

\* stop() on both loops from another thread: the store ...
PairStopStore ==
    /\ stop_pc = "idle"
    /\ pc \notin {"idle", "returned"}
    /\ loop' = [loop EXCEPT !.stop_requested = TRUE]
    /\ twin' = [twin EXCEPT !.loop = [@ EXCEPT !.stop_requested = TRUE]]
    /\ stop_pc' = "write"
    /\ UNCHANGED <<frame, pc, run_result, wait_until, events, front, now, PairRest>>

\* ... and the write to the wake fd
PairStopWrite ==
    /\ stop_pc = "write"
    /\ loop' = [loop EXCEPT !.wake_count = @ + 1]
    /\ twin' = [twin EXCEPT !.loop = [@ EXCEPT !.wake_count = @ + 1]]
    /\ stop_pc' = "done"
    /\ UNCHANGED <<frame, pc, run_result, wait_until, events, front, now, PairRest>>

PairTick ==
    /\ now < MaxTime
    /\ loop.timed_waiter_count > 0 \/ twin.loop.timed_waiter_count > 0
    /\ now' = now + 1
    /\ UNCHANGED <<loop, frame, pc, run_result, wait_until, events, stop_pc, front, twin,
                   PairRest>>

PairNext ==
    \/ \E h \in Handles : PairSpawn(h)
    \/ PairRunCall
    \/ PairEnter
    \/ PairTop
    \/ PairPop
    \/ PairResume
    \/ PairIdle
    \/ PairWaitEvents
    \/ PairTimeout
    \/ PairExit
    \/ PairStopStore
    \/ PairStopWrite
    \/ PairTick

\* the epoll loop in the variables, the uring loop beside it
PairInit == Init /\ loop.backend = "epoll"

PairSpec == PairInit /\ [][PairNext]_vars

\* what a loop holds, without the kernel objects and the tokens of its
\* backend
LoopView(L) ==
    [ready_queue |-> L.ready_queue, wait_results |-> L.wait_results,
     root_tasks |-> L.root_tasks, active_task_count |-> L.active_task_count,
     pending_waiter_count |-> L.pending_waiter_count,
     timed_waiter_count |-> L.timed_waiter_count,
     next_deadline |-> L.next_deadline,
     stop_requested |-> L.stop_requested, loop_error |-> L.loop_error,
     waiters |-> [fd \in DOMAIN L.waiters |->
                    [readable |-> [L.waiters[fd].readable EXCEPT !.token = 0],
                     writable |-> [L.waiters[fd].writable EXCEPT !.token = 0]]]]

Extends(q, p) == Len(q) >= Len(p) /\ SubSeq(q, 1, Len(p)) = p

NotTasks == <<loop, frame, pc, run_result, wait_until, events, stop_pc, front, now,
              sleeper, timerfd, spurious, co, sock, qw, rs, ufd, twin>>

Count(s, x) == Cardinality({i \in 1..Len(s) : s[i] = x})
Twice(n) == IF n < 2 THEN n + 1 ELSE 2
Unused(K) == {t \in Tasks : K.promise[t].at = "none"}
Roots(K) == {t \in Tasks : K.promise[t].tracked_}

\* the coroutine is called: its frame is allocated and stops at initial_suspend
get_return_object(K, t) == [K EXCEPT !.promise[t] = [NewPromise EXCEPT !.at = "initial"]]

set_scheduler(K, t, value, tracked) ==
    [K EXCEPT !.promise[t].scheduler_ = value, !.promise[t].tracked_ = tracked]

set_continuation(K, t, continuation) ==
    [K EXCEPT !.promise[t].continuation_ = continuation]

\* a final awaiter that resumes the continuation from inside await_suspend
final_await_suspend_inline(K, t) ==
    LET P  == K.promise[t]
        K1 == [K EXCEPT !.promise[t].at = "final"]
        K2 == IF P.tracked_ /\ P.scheduler_ # 0 THEN on_task_completed(K1) ELSE K1
    IN  IF P.continuation_ = 0 THEN K2
        ELSE [K2 EXCEPT !.inline = @ \cup {P.continuation_}]

\* task_final_awaiter::await_suspend(handle), reached by co_return and by
\* unhandled_exception()
final_await_suspend(K, t) ==
    LET P  == K.promise[t]
        K1 == [K EXCEPT !.promise[t].at = "final"]
        K2 == IF P.tracked_ /\ P.scheduler_ # 0 THEN on_task_completed(K1) ELSE K1
    IN  IF P.continuation_ = 0 THEN K2
        ELSE IF P.scheduler_ # 0 THEN schedule(K2, P.continuation_)
        ELSE [K2 EXCEPT !.inline = @ \cup {P.continuation_}]

\* awaiter::await_suspend(awaiting) with handle_ = child
await_suspend(K, awaiting, child) ==
    LET K1 == set_continuation(K, child, awaiting)
        K2 == IF K1.promise[child].scheduler_ = 0
              THEN set_scheduler(K1, child, K1.promise[awaiting].scheduler_, FALSE)
              ELSE K1
    IN  IF K2.promise[child].scheduler_ # 0 THEN schedule(K2, child)
        ELSE [K2 EXCEPT !.inline = @ \cup {child}]

\* co_await child(): the child's frame is made, operator co_await() moves its
\* handle into the awaiter, await_ready() is false, await_suspend runs
co_await(K, awaiting, child) ==
    await_suspend([get_return_object(K, child) EXCEPT
                       !.handle_[awaiting] = child,
                       !.promise[awaiting].at = "awaiting"],
                  awaiting, child)

\* coroutine_handle::destroy(): the frame goes, and with it an awaiter that
\* still holds a handle (~awaiter destroys that frame in turn)
RECURSIVE handle_destroy(_, _)
handle_destroy(K, t) ==
    LET K1 == [K EXCEPT !.promise[t].at = "destroyed",
                        !.destroyed[t] = Twice(@),
                        !.handle_[t] = 0]
    IN  IF K.handle_[t] # 0 THEN handle_destroy(K1, K.handle_[t]) ELSE K1

\* awaiter::await_resume(): consume_result() throws the child's exception, or
\* logic_error when it has no value; only a returned value reaches destroy()
await_resume(K, h) ==
    LET c  == K.handle_[h]
        P  == K.promise[c]
        K1 == [K EXCEPT !.consumed[c] = Twice(@)]
    IN  IF P.exception_ \/ ~P.value_ THEN [K |-> K1, thrown |-> TRUE]
        ELSE [K |-> [handle_destroy(K1, c) EXCEPT !.handle_[h] = 0], thrown |-> FALSE]

\* awaiter::~awaiter() at the end of the co_await expression
awaiter_dtor(K, h) ==
    IF K.handle_[h] # 0
    THEN [handle_destroy(K, K.handle_[h]) EXCEPT !.handle_[h] = 0]
    ELSE K

\* what the body of a resumed coroutine does up to its next suspension
TaskOps == {"await", "park", "return", "throw"}

task_body(K, h, op) ==
    CASE op = "await"  -> co_await(K, h, CHOOSE c \in Unused(K) : \A d \in Unused(K) : c <= d)
      [] op = "park"   -> [K EXCEPT !.promise[h].at = "parked"]
      [] op = "return" -> final_await_suspend([K EXCEPT !.promise[h].value_ = TRUE], h)
      [] op = "throw"  -> final_await_suspend([K EXCEPT !.promise[h].exception_ = TRUE], h)

RECURSIVE destroy_roots(_, _)
destroy_roots(K, roots) ==
    IF roots = <<>> THEN K
    ELSE destroy_roots(handle_destroy(K, Head(roots)), Tail(roots))

\* handle.done() of the roots the loop owns
DoneTasks(K) ==
    {K.root_tasks[i] : i \in {j \in DOMAIN K.root_tasks :
                                 K.promise[K.root_tasks[j]].at = "final"}}

\* a cleanup that destroys the frames that are done and keeps their handles
\* in the root list
destroy_completed_roots_keeps_list(K) ==
    destroy_roots(K, SelectSeq(K.root_tasks, LAMBDA t : t \in DoneTasks(K)))

\* cleanup_completed_roots(): every root that is done is destroyed and
\* erased from root_tasks_
destroy_completed_roots(K) ==
    [destroy_roots(K, SelectSeq(K.root_tasks, LAMBDA t : t \in DoneTasks(K)))
        EXCEPT !.root_tasks = RemoveAll(@, DoneTasks(K))]

\* event_loop::spawn(task): release(), set_scheduler(this, true), count, schedule
TaskSpawn ==
    /\ ~tk.torn
    /\ Unused(tk) # {}
    /\ Cardinality(Roots(tk)) < MaxRoots
    /\ \E c \in {CHOOSE c \in Unused(tk) : \A d \in Unused(tk) : c <= d} :
       \E K \in {set_scheduler(get_return_object(tk, c), c, 1, TRUE)} :
          tk' = schedule([K EXCEPT !.active_task_count = @ + 1,
                                   !.root_tasks = Append(@, c)], c)
    /\ UNCHANGED NotTasks

\* run(): pop the front handle; skip it if done, else resume it and clean up
\* the roots that are done
TaskResume ==
    /\ ~tk.torn
    /\ tk.ready_queue # <<>>
    /\ \E h \in {Head(tk.ready_queue)} :
       \E K \in {[tk EXCEPT !.ready_queue = Tail(@)]} :
          CASE K.promise[h].at = "final" -> tk' = K
            [] K.promise[h].at = "destroyed" -> tk' = [K EXCEPT !.dangling = TRUE]
            [] K.promise[h].at = "awaiting" ->
                 \E R \in {await_resume(K, h)} :
                 \E K1 \in {awaiter_dtor(R.K, h)} :
                    IF R.thrown
                    THEN tk' = destroy_completed_roots(task_body(K1, h, "throw"))
                    ELSE \E op \in TaskOps :
                            /\ op = "await" => Unused(K1) # {}
                            /\ tk' = destroy_completed_roots(task_body(K1, h, op))
            [] OTHER ->
                 \E op \in TaskOps :
                    /\ op = "await" => Unused(K) # {}
                    /\ tk' = destroy_completed_roots(task_body(K, h, op))
    /\ UNCHANGED NotTasks

\* the loop resumes a parked coroutine: resume_waiter() schedules its handle
TaskWake ==
    /\ ~tk.torn
    /\ \E h \in Tasks :
          /\ tk.promise[h].at = "parked"
          /\ tk' = schedule([tk EXCEPT !.promise[h].at = "woken"], h)
    /\ UNCHANGED NotTasks

\* ~event_loop(): destroy_all_roots()
TaskTeardown ==
    /\ ~tk.torn
    /\ Roots(tk) # {}
    /\ tk' = [destroy_roots(tk, tk.root_tasks) EXCEPT !.torn = TRUE, !.root_tasks = <<>>,
                                                      !.ready_queue = <<>>]
    /\ UNCHANGED NotTasks

TaskNext == TaskSpawn \/ TaskResume \/ TaskWake \/ TaskTeardown

TaskSpec == Init /\ [][TaskNext]_vars

\* C24: a task bound to a scheduler that awaits a child hands the child its
\* scheduler untracked and puts it at the back of the ready queue without
\* running it; while the await lasts the parent stays suspended and is on the
\* ready queue exactly when the child has reached its final suspend (put there
\* once, in the step the child finishes, never resumed inline); the await ends
\* only by the parent being popped from the ready queue, which consumes the
\* child's result once and destroys the child's frame once.
C24_ChildAwaitedThroughReadyQueue ==
    [][\A p \in Tasks :
         LET c  == tk.handle_[p]
             c2 == tk'.handle_[p]
         IN  /\ (c2 # 0 /\ c2 # c /\ tk.promise[p].scheduler_ # 0) =>
                   /\ tk.promise[c2].at = "none"
                   /\ tk'.promise[c2].at = "initial"
                   /\ tk'.promise[c2].scheduler_ = tk.promise[p].scheduler_
                   /\ ~tk'.promise[c2].tracked_
                   /\ tk'.promise[c2].continuation_ = p
                   /\ tk'.ready_queue = Append(Tail(tk.ready_queue), c2)
                   /\ tk'.active_task_count = tk.active_task_count
                   /\ tk'.promise[p].at = "awaiting"
             /\ (c # 0 /\ c2 = c) =>
                   /\ tk'.promise[p].at = "awaiting"
                   /\ Count(tk'.ready_queue, p) =
                        Count(tk.ready_queue, p)
                        + (IF tk.promise[c].at # "final" /\ tk'.promise[c].at = "final"
                           THEN 1 ELSE 0)
                   /\ Count(tk'.ready_queue, p) =
                        (IF tk'.promise[c].at = "final" THEN 1 ELSE 0)
                   /\ tk'.consumed[c] = 0 /\ tk'.destroyed[c] = 0
             /\ (c # 0 /\ c2 # c /\ ~tk'.torn) =>
                   /\ Head(tk.ready_queue) = p
                   /\ tk.promise[c].at = "final"
                   /\ tk'.consumed[c] = 1 /\ tk'.destroyed[c] = 1
                   /\ tk'.promise[c].at = "destroyed"
                   /\ Count(tk'.ready_queue, p) = 0
             /\ tk'.inline = {} /\ ~tk'.dangling
             /\ tk'.consumed[p] <= 1 /\ tk'.destroyed[p] <= 1]_vars

\* a grandchild returned a value, its parent consumed it and threw, and the root
\* consumed the exception: both child frames are gone, each destroyed once
C24_Witness ==
    /\ ~tk.torn
    /\ tk.promise[1].tracked_ /\ tk.promise[1].at = "destroyed" /\ tk.promise[1].exception_
    /\ tk.promise[2].continuation_ = 1 /\ tk.promise[2].exception_
    /\ tk.promise[3].continuation_ = 2 /\ tk.promise[3].value_
    /\ tk.consumed[2] = 1 /\ tk.destroyed[2] = 1
    /\ tk.consumed[3] = 1 /\ tk.destroyed[3] = 1
    /\ tk.active_task_count = 0

\* ---------------------------------------------------------------------------
\* loop errors: a descriptor or the ring failing under the loop
\* ---------------------------------------------------------------------------
\* while run() is blocked in the reactor the program closes a descriptor the
\* epoll set still knows through a duplicate (epoll_ctl on it fails with EBADF
\* from then on), or the ring stops taking submissions
FaultFds == {1}

Fault ==
    /\ pc = "wait"
    /\ loop.bad_fds = {} /\ loop.ring_error = 0
    /\ IF loop.backend = "epoll"
       THEN \E fd \in FaultFds : loop' = [loop EXCEPT !.bad_fds = {fd}]
       ELSE loop' = [loop EXCEPT !.ring_error = EAGAIN]
    /\ UNCHANGED <<frame, pc, run_result, wait_until, events, stop_pc, front, now,
                   sleeper, timerfd, spurious, co, sock, qw, rs, ufd, twin, tk>>

ErrNext ==
    \/ \E h \in Handles : Spawn(h)
    \/ RunCall
    \/ LoopThread
    \/ WaitEvents
    \/ Tick
    \/ StopStore
    \/ StopWrite
    \/ Fault

ErrSpec == Init /\ [][ErrNext]_vars

\* the same faults with nobody calling stop()
FaultNext ==
    \/ NextNoStop
    \/ Fault

FaultSpec == Init /\ [][FaultNext]_vars

Faulty(L) == L.bad_fds # {} \/ L.ring_error # 0

\* the outcomes delivered to single waiters that are errors
WaiterErrors(L) == {h \in DOMAIN L.wait_results : L.wait_results[h] # ok}

\* C25: the loop error is set only by a failed refresh_interest, poll-remove or
\* wake re-arm inside a dispatch or expiry step of run() (or by the failed
\* final flush of the uring run), together with stop_requested; from then on
\* no frame is resumed, the error is not replaced, and run() returns exactly
\* it; an error handed to a single waiter leaves loop_error and
\* stop_requested alone.
C25_LoopErrorLatchedAndReturned ==
    [][/\ (loop.loop_error = 0 /\ loop'.loop_error # 0) =>
             /\ Faulty(loop)
             /\ pc \in {"top", "resume", "wait", "exit"}
             /\ pc # "exit" => loop'.stop_requested
             /\ loop'.loop_error = (IF loop.backend = "epoll" THEN EBADF ELSE
                                    IF loop.submission_pending THEN EAGAIN ELSE EBUSY)
             /\ pc' \in {"exit", "top", "returned"}
       /\ \A fd \in loop.bad_fds :
             (/\ loop.loop_error = 0 /\ fd \in DOMAIN loop.waiters
              /\ (fd \notin DOMAIN loop'.waiters \/ loop'.waiters[fd] # loop.waiters[fd]))
             => (loop'.loop_error = EBADF /\ loop'.stop_requested)
       /\ (/\ loop.ring_error # 0 /\ loop.loop_error = 0 /\ pc \in {"top", "resume"}
           /\ loop'.timed_waiter_count < loop.timed_waiter_count)
             => (loop'.loop_error # 0 /\ loop'.stop_requested)
       /\ (loop.loop_error # 0) =>
             /\ loop'.loop_error = loop.loop_error
             /\ frame' = frame
             /\ loop'.ready_queue = loop.ready_queue
             /\ loop'.wait_results = loop.wait_results
             /\ pc' \in {pc, "exit", "returned"}
             /\ pc' = "returned" => run_result' = loop.loop_error
       /\ (~loop.stop_requested /\ loop'.stop_requested /\ stop_pc' = stop_pc) =>
             loop'.loop_error # 0
       /\ (WaiterErrors(loop') # WaiterErrors(loop) /\ ~Faulty(loop)) =>
             /\ loop'.loop_error = 0
             /\ loop'.stop_requested = loop.stop_requested
       /\ (run_result' # run_result /\ run_result' \notin {ok, EDEADLK}) =>
             \/ run_result' = loop.loop_error /\ loop.loop_error # 0
             \/ pc = "exit" /\ loop.loop_error = 0 /\ run_result' = loop'.loop_error
             \/ pc = "drain" /\ loop.loop_error = 0 /\ loop.ring_error # 0
                /\ run_result' = loop.ring_error]_vars

\* run() returned the EBADF of a refresh_interest that failed for a descriptor
\* whose timed waiter expired, with the expired frame still queued
C25_Witness ==
    /\ pc = "returned"
    /\ loop.backend = "epoll"
    /\ run_result = EBADF /\ loop.loop_error = EBADF /\ loop.stop_requested
    /\ loop.ready_queue # <<>>
    /\ \E h \in Handles : /\ h \in DOMAIN loop.wait_results
                          /\ loop.wait_results[h] = TimeoutErrorOf(h)
                          /\ frame[h].st = "awaiting"

\* ---------------------------------------------------------------------------
\* run() called again on a uring loop after stop() ended the run before
\* ---------------------------------------------------------------------------
\* the driver calls run() again after a run() that stop() ended; the thread
\* that called stop() is free to call it once more
RunAgain ==
    /\ pc = "returned"
    /\ stop_pc = "done"
    /\ co.round < MaxRounds
    /\ co' = [co EXCEPT !.round = @ + 1]
    /\ pc' = "enter"
    /\ stop_pc' = "idle"
    /\ run_result' = nullopt
    /\ wait_until' = nullopt
    /\ UNCHANGED <<loop, frame, events, front, now, sleeper, timerfd, spurious,
                   sock, qw, rs, ufd, twin, tk>>

RerunInit == Init /\ loop.backend = "uring"

\* one frame is enough to keep a run() blocked
RerunNext ==
    \/ Spawn(1)
    \/ RunCall
    \/ LoopThread
    \/ WaitEvents
    \/ Tick
    \/ StopStore
    \/ StopWrite
    \/ RunAgain

RerunSpec == RerunInit /\ [][RerunNext]_vars

WakePollInFlight(L) ==
    \E p \in L.polls : p.fd = WakeFd /\ p.token = L.wake_token

\* C26: whenever run() of the uring loop is blocked in the reactor wait, the
\* poll-add for the wake fd under wake_token is in flight in the ring, in the
\* first run() and in a run() that follows one ended by stop().
C26_WakePollInFlightWhenBlocked ==
    (loop.backend = "uring" /\ pc = "wait") => WakePollInFlight(loop)

\* C27: once another thread has begun a stop() at any moment after the driver
\* called run(), before run()'s first loop turn included, run() returns, even
\* if no descriptor becomes ready and no deadline fires.
C27_StopIsNotLost ==
    (stop_pc # "idle") ~> (pc = "returned")

\* ---------------------------------------------------------------------------
\* timed waiters whose descriptors never become ready
\* ---------------------------------------------------------------------------
\* no descriptor becomes ready and nobody calls stop(); the driver thread
\* keeps taking its steps and the clock keeps advancing
QuietNext ==
    \/ \E h \in Handles : Spawn(h)
    \/ RunCall
    \/ LoopThread
    \/ Tick

QuietSpec ==
    /\ Init /\ [][QuietNext]_vars
    /\ WF_pc(LoopThreadMoves)
    /\ WF_now(Tick)

TimedSlots(L) == {sl \in Slots : TimedParked(L, sl)}

\* C28: a timed registration is removed, with nothing ever ready, only at or
\* after its deadline, and the step that removes it queues its frame with the
\* registration's timeout error; whenever run() is blocked in the reactor the
\* wait is unbounded only if no timed waiter is armed, and otherwise
\* next_deadline and the end of the wait are not later than the earliest armed
\* deadline; a parked timed waiter is eventually expired, and the frame queued
\* with its timeout error eventually consumes it.
C28_TimedWaiterExpiresAtDeadline ==
    /\ [][\A sl \in TimedSlots(loop) :
             LET reg == RegOf(loop, sl[1], sl[2])
             IN  (~Parked(loop', sl[1], sl[2]) \/ RegOf(loop', sl[1], sl[2]) # reg) =>
                    /\ now >= reg.deadline
                    /\ ~Parked(loop', sl[1], sl[2])
                    /\ reg.handle \in DOMAIN loop'.wait_results
                    /\ loop'.wait_results[reg.handle] = reg.timeout_error
                    /\ InSeq(loop'.ready_queue, reg.handle)
                    /\ ~InSeq(loop.ready_queue, reg.handle)]_vars
    /\ [](pc = "wait" =>
             /\ wait_until = nullopt => TimedSlots(loop) = {}
             /\ \A sl \in TimedSlots(loop) :
                   /\ wait_until # nullopt
                   /\ loop.next_deadline # nullopt
                   /\ loop.next_deadline <= RegOf(loop, sl[1], sl[2]).deadline
                   /\ wait_until <= Max(now, RegOf(loop, sl[1], sl[2]).deadline))
    /\ \A h \in Handles :
          /\ (\E sl \in TimedSlots(loop) : RegOf(loop, sl[1], sl[2]).handle = h)
                ~> (/\ h \in DOMAIN loop.wait_results
                    /\ loop.wait_results[h] = TimeoutErrorOf(h)
                    /\ InSeq(loop.ready_queue, h))
          /\ (h \in DOMAIN loop.wait_results) ~> (h \notin DOMAIN loop.wait_results)

\* both frames were parked with deadlines 1 and 2 on one descriptor, the wait
\* was cut at the earlier one, and both have run to the end on their timeout
\* errors
C28_Witness ==
    /\ pc = "returned" /\ run_result = ok
    /\ now = 2
    /\ frame[1].st = "done" /\ frame[1].outcome = ETIMEDOUT
    /\ frame[2].st = "done" /\ frame[2].outcome = ECANCELED
    /\ loop.waiters = EmptyMap /\ loop.wait_results = EmptyMap

\* ---------------------------------------------------------------------------
\* arming with a timeout that has already elapsed
\* ---------------------------------------------------------------------------
\* timeouts of zero or less (nullopt stands for "no timeout" and is not one)
ElapsedTimeouts == {0, -2, -3}

\* C29: whenever a frame is being resumed in either loop, arm_waiter called
\* by it with a timeout of zero or less, for any descriptor (free or busy),
\* either direction and either timeout error, returns ok and changes nothing
\* of the loop but the frame's wait result, set to that error, and the ready
\* queue, which gets the frame at its back; a frame suspended in such a wait is on
\* the ready queue (or just popped) with that result stored, and its resume
\* consumes exactly that error.
C29_ElapsedTimeoutIsDeliveredAtOnce ==
    /\ (pc = "resume" /\ front # 0 /\ frame[front].st # "done") =>
          \E a \in {AwaitResume(loop, frame, front)} :
          \A fd \in Fds, readable \in BOOLEAN, timeout \in ElapsedTimeouts,
             timeout_error \in {ETIMEDOUT, ECANCELED} :
             \E r \in {arm_waiter(a.L, now, fd, front, readable, timeout, timeout_error)} :
                /\ r.st = ok
                /\ r.L = [a.L EXCEPT !.wait_results = Put(@, front, timeout_error),
                                     !.ready_queue = Append(@, front)]
    /\ \A h \in Handles :
          (frame[h].st = "awaiting" /\ frame[h].aw.timeout = 0) =>
             /\ InSeq(loop.ready_queue, h) \/ (pc = "resume" /\ front = h)
             /\ h \in DOMAIN loop.wait_results
             /\ loop.wait_results[h] = TimeoutErrorOf(h)
             /\ \E a \in {AwaitResume(loop, frame, h)} :
                   /\ a.fr[h].outcome = TimeoutErrorOf(h)
                   /\ h \notin DOMAIN a.L.wait_results

\* the second frame went through a zero timeout wait while the first frame
\* is parked and has returned with operation_canceled, the waiter untouched
C29_Witness ==
    /\ frame[2].st = "done" /\ frame[2].outcome = ECANCELED /\ now = 0
    /\ frame[1].st = "awaiting" /\ frame[1].aw.timeout = nullopt
    /\ Parked(loop, frame[1].aw.fd, frame[1].aw.readable)
    /\ RegOf(loop, frame[1].aw.fd, frame[1].aw.readable).handle = 1
    /\ loop.pending_waiter_count = 1 /\ loop.timed_waiter_count = 0
    /\ loop.wait_results = EmptyMap

\* ---------------------------------------------------------------------------
\* wait results: delivered once, consumed once
\* ---------------------------------------------------------------------------
\* C30: the wait-result map holds an entry only for a frame that is suspended
\* in a wait, holds no registration any more, and is on the ready queue or
\* was just popped; an entry keeps its value until the step that resumes its
\* frame; that step hands the frame exactly the stored outcome and erases it,
\* so a later wait of the frame starts without an entry (unless it is itself
\* a wait with an elapsed timeout, which stores its own); a frame resumed out
\* of a wait always finds the outcome delivered for that wait.
C30_WaitResultConsumedOnce ==
    /\ [](\A h \in Handles :
            /\ h \in DOMAIN loop.wait_results =>
                  /\ frame[h].st = "awaiting"
                  /\ InSeq(loop.ready_queue, h) \/ (pc = "resume" /\ front = h)
                  /\ h \notin ParkedHandles(loop)
            /\ (pc = "resume" /\ front = h /\ frame[h].st = "awaiting") =>
                  /\ h \in DOMAIN loop.wait_results
                  /\ \E a \in {AwaitResume(loop, frame, h)} :
                        /\ a.fr[h].outcome = loop.wait_results[h]
                        /\ h \notin DOMAIN a.L.wait_results
                        /\ \A g \in Handles \ {h} :
                              g \in DOMAIN loop.wait_results =>
                                 /\ g \in DOMAIN a.L.wait_results
                                 /\ a.L.wait_results[g] = loop.wait_results[g])
    /\ [][\A h \in Handles :
            /\ (h \in DOMAIN loop.wait_results
                /\ ~(pc = "resume" /\ front = h /\ pc' # pc)) =>
                  /\ h \in DOMAIN loop'.wait_results
                  /\ loop'.wait_results[h] = loop.wait_results[h]
                  /\ frame'[h] = frame[h]
            /\ (h \in DOMAIN loop.wait_results
                /\ pc = "resume" /\ front = h /\ pc' # pc) =>
                  /\ h \in DOMAIN loop'.wait_results =>
                        (/\ frame'[h].st = "awaiting" /\ frame'[h].aw.timeout = 0
                         /\ frame'[h].ops = frame[h].ops + 1
                         /\ loop'.wait_results[h] = TimeoutErrorOf(h))
                  /\ frame'[h].st = "done" =>
                        frame'[h].outcome \in {loop.wait_results[h], EBADF, EBUSY}
            /\ (h \notin DOMAIN loop.wait_results /\ h \in DOMAIN loop'.wait_results) =>
                  /\ frame'[h].st = "awaiting"
                  /\ \/ h \in ParkedHandles(loop) /\ h \notin ParkedHandles(loop')
                     \/ pc = "resume" /\ front = h /\ frame'[h].aw.timeout = 0]_vars

\* the first frame has consumed the outcome of its first wait and is parked
\* in its second wait with the map empty, run() blocked in the reactor
C30_Witness ==
    /\ pc = "wait"
    /\ frame[1].ops = 2 /\ frame[1].st = "awaiting"
    /\ 1 \in ParkedHandles(loop)
    /\ frame[1].aw.timeout = nullopt
    /\ loop.wait_results = EmptyMap
    /\ loop.ready_queue = <<>>

\* ---------------------------------------------------------------------------
\* directions of one descriptor in the epoll loop
\* ---------------------------------------------------------------------------
\* the event run() dispatched for fd in the batch it was just handed
EventFor(batch, fd) ==
    {batch[i].events : i \in {j \in DOMAIN batch : batch[j].fd = fd}}

\* the other direction of slot fd is left as it was by the step: registration,
\* ready queue and wait results of its frame, and the kernel's entry is the
\* one of that direction alone
OtherStays(fd, readable) ==
    LET kept == IF readable THEN loop.waiters[fd].writable ELSE loop.waiters[fd].readable
        gone == IF readable THEN loop.waiters[fd].readable ELSE loop.waiters[fd].writable
    IN  /\ fd \in DOMAIN loop'.waiters
        /\ (IF readable THEN loop'.waiters[fd].writable ELSE loop'.waiters[fd].readable) = kept
        /\ (IF readable THEN loop'.waiters[fd].readable ELSE loop'.waiters[fd].writable)
               = wait_registration
        /\ InSeq(loop'.ready_queue, gone.handle)
        /\ gone.handle \in DOMAIN loop'.wait_results
        /\ loop'.wait_results[gone.handle] = ok
        /\ ~InSeq(loop'.ready_queue, kept.handle)
        /\ kept.handle \notin DOMAIN loop'.wait_results
        /\ frame'[kept.handle] = frame[kept.handle]
        /\ fd \in DOMAIN loop'.interest
        /\ loop'.interest[fd] = kCommonFlags \cup (IF readable THEN {"OUT"} ELSE {"IN"})
        /\ loop'.waiters[fd].registered_mask = loop'.interest[fd]

\* C31: in the epoll loop an event on a descriptor with a readable and a
\* writable waiter whose mask holds read-ready bits only (EPOLLIN or
\* EPOLLRDHUP, no EPOLLERR/EPOLLHUP) resumes the readable waiter and leaves
\* the writable one parked with its deadline and timeout error, and the other
\* way round for EPOLLOUT; the waiter that stays is registered with the kernel
\* for its own direction only
C31_OtherDirectionStaysParked ==
    [][(loop.backend = "epoll" /\ pc = "wait" /\ pc' = "top" /\ events' # <<>>) =>
        \A fd \in DOMAIN loop.waiters :
            \A mask \in EventFor(events', fd) :
                (loop.waiters[fd].readable.handle # 0 /\ loop.waiters[fd].writable.handle # 0) =>
                    /\ (has_event(mask, kReadReadyMask) /\ ~has_event(mask, kWriteReadyMask))
                           => OtherStays(fd, TRUE)
                    /\ (has_event(mask, kWriteReadyMask) /\ ~has_event(mask, kReadReadyMask))
                           => OtherStays(fd, FALSE)]_vars

\* run() has just dispatched EPOLLIN for a descriptor: its reader is queued
\* with ok, its timed writer is still parked and registered for EPOLLOUT
C31_Witness ==
    /\ loop.backend = "epoll" /\ pc = "top"
    /\ \E fd \in DOMAIN loop.waiters :
           /\ EventFor(events, fd) = {{"IN"}}
           /\ loop.waiters[fd].readable.handle = 0
           /\ loop.waiters[fd].writable.handle # 0
           /\ loop.waiters[fd].writable.deadline # nullopt
           /\ loop.interest[fd] = kCommonFlags \cup {"OUT"}
           /\ \E h \in DOMAIN loop.wait_results :
                  /\ loop.wait_results[h] = ok /\ InSeq(loop.ready_queue, h)
                  /\ frame[h].aw.fd = fd /\ frame[h].aw.readable

\* ---------------------------------------------------------------------------
\* the registered mask of the epoll loop
\* ---------------------------------------------------------------------------
\* C33: in the epoll loop, between the steps of run(), every slot holds a
\* waiter, its registered_mask is the common flags plus EPOLLIN iff it has a
\* readable waiter plus EPOLLOUT iff it has a writable one, the kernel's
\* interest set holds exactly the descriptors with a slot, under that mask;
\* no epoll_ctl the loop made was refused (add for the first waiter, modify
\* for a change, remove for the last), and a refresh with the mask already
\* registered makes no epoll_ctl call at all
C33_RegisteredMaskIsDesiredMask ==
    loop.backend = "epoll" =>
        /\ loop.loop_error = 0
        /\ \A h \in Handles : frame[h].outcome \notin {EEXIST, ENOENT, EBADF}
        /\ (DOMAIN loop.interest) \ {WakeFd} = DOMAIN loop.waiters
        /\ \A fd \in DOMAIN loop.waiters :
               LET slot == loop.waiters[fd]
               IN  /\ slot.readable.handle # 0 \/ slot.writable.handle # 0
                   /\ slot.registered_mask = DesiredMask(slot)
                   /\ slot.registered_mask =
                          kCommonFlags
                          \cup (IF slot.readable.handle # 0 THEN {"IN"} ELSE {})
                          \cup (IF slot.writable.handle # 0 THEN {"OUT"} ELSE {})
                   /\ loop.interest[fd] = slot.registered_mask
                   /\ refresh_interest([loop EXCEPT !.bad_fds = {fd}], fd).st = ok

\* an expiry sweep took the timed reader out of a slot that keeps its
\* writer: the kernel's entry was modified down to EPOLLOUT
C33_Witness ==
    /\ loop.backend = "epoll"
    /\ \E fd \in DOMAIN loop.waiters :
           /\ loop.waiters[fd].readable.handle = 0
           /\ loop.waiters[fd].writable.handle # 0
           /\ loop.waiters[fd].registered_mask = kCommonFlags \cup {"OUT"}
           /\ loop.interest[fd] = kCommonFlags \cup {"OUT"}
           /\ \E h \in DOMAIN loop.wait_results :
                  /\ loop.wait_results[h] = TimeoutErrorOf(h)
                  /\ frame[h].aw.fd = fd /\ frame[h].aw.readable

\* ---------------------------------------------------------------------------
\* the bookkeeping of queued_writer
\* ---------------------------------------------------------------------------
\* the bytes of the buffers behind the front buffer
LaterBytes(Q) == Len(Flat(Tail(Q.queue)))

\* C32: whatever was enqueued and however flushes and graceful_shutdowns
\* ended (or are suspended), queued_bytes is the unwritten rest of the front
\* buffer plus the sizes of the later buffers, no queued buffer is empty, the
\* queue is empty iff queued_bytes is 0, front_offset lies inside the front
\* buffer when there is one and is 0 when there is none
C32_QueueAccounting ==
    qw.built =>
        /\ \A i \in DOMAIN qw.queue : Len(qw.queue[i]) > 0
        /\ (qw.queue = <<>>) <=> (qw.queued_bytes = 0)
        /\ qw.queue = <<>> => qw.front_offset = 0
        /\ qw.queue # <<>> =>
               /\ qw.front_offset >= 0
               /\ qw.front_offset < Len(Head(qw.queue))
               /\ qw.queued_bytes = (Len(Head(qw.queue)) - qw.front_offset) + LaterBytes(qw)

\* a flush ended with an error after a partial write of the front buffer,
\* with a second buffer queued behind it
C32_Witness ==
    /\ qw.built
    /\ Len(qw.queue) = 2
    /\ qw.front_offset = 1
    /\ qw.queued_bytes = 2
    /\ co.st = "done"
    /\ co.result.err \in {ETIMEDOUT, ECANCELED, EIO}

\* ---------------------------------------------------------------------------
\* an arm that fails after the registration was installed
\* ---------------------------------------------------------------------------
\* timeouts with which arm_waiter goes past its fast path
ArmTimeouts == {nullopt, 1, MaxTimeout}

\* the registration arm_waiter would fill is free
FreeTarget(L, fd, readable) ==
    fd \in DOMAIN L.waiters =>
        (IF readable THEN L.waiters[fd].readable.handle
         ELSE L.waiters[fd].writable.handle) = 0

\* C34: with the descriptor refused by epoll_ctl (epoll loop) or the ring
\* taking no submission (uring loop), an arm_waiter that gets past the busy
\* test fails with the error of the refused call, and the loop it leaves has
\* the waiter map (the registration, the slot, the other direction), the
\* in-flight map, pending_waiter_count, timed_waiter_count, the ready queue,
\* the wait results and the kernel's interest set as they were before the
\* call; the frame is not parked: its body goes on with the error
C34_FailedArmIsRolledBack ==
    (pc = "resume" /\ front # 0 /\ frame[front].st # "done" /\ Faulty(loop)) =>
        \E a \in {AwaitResume(loop, frame, front)} :
        \A fd \in Fds, readable \in BOOLEAN, timeout \in ArmTimeouts :
           \E r \in {arm_waiter(a.L, now, fd, front, readable, timeout,
                                TimeoutErrorOf(front))} :
              (FreeTarget(a.L, fd, readable)
               /\ (a.L.backend = "epoll" => fd \in a.L.bad_fds)) =>
                 /\ r.st = (IF a.L.backend = "epoll" THEN EBADF
                            ELSE IF a.L.submission_pending THEN EAGAIN ELSE EBUSY)
                 /\ r.L.waiters = a.L.waiters
                 /\ r.L.inflight_polls = a.L.inflight_polls
                 /\ r.L.pending_waiter_count = a.L.pending_waiter_count
                 /\ r.L.timed_waiter_count = a.L.timed_waiter_count
                 /\ r.L.ready_queue = a.L.ready_queue
                 /\ r.L.wait_results = a.L.wait_results
                 /\ r.L.interest = a.L.interest
                 /\ r.L.loop_error = a.L.loop_error
                 /\ \E x \in {Resume(loop, frame, front,
                                     [kind |-> "arm", fd |-> fd, readable |-> readable,
                                      timeout |-> timeout,
                                      timeout_error |-> TimeoutErrorOf(front)], now)} :
                       /\ x.fr[front].st = "done"
                       /\ x.fr[front].outcome = r.st
                       /\ x.L.waiters = a.L.waiters

\* in the epoll loop a frame came back from an arm refused with EBADF while
\* the other direction of the same descriptor is still parked, its slot and
\* the counters as before
C34_Witness ==
    /\ loop.backend = "epoll" /\ loop.loop_error = 0
    /\ \E h \in Handles, fd \in loop.bad_fds :
           /\ frame[h].st = "done" /\ frame[h].outcome = EBADF
           /\ fd \in DOMAIN loop.waiters
           /\ loop.waiters[fd].readable.handle # 0 /\ loop.waiters[fd].writable.handle = 0
           /\ loop.waiters[fd].registered_mask = kCommonFlags \cup {"IN"}
           /\ loop.pending_waiter_count = 1

\* ---------------------------------------------------------------------------
\* ownership of the root frames
\* ---------------------------------------------------------------------------
\* the handles in a sequence
Elements(q) == {q[i] : i \in DOMAIN q}

\* a frame that ran to its final suspend point: it returned or threw
RanToEnd(K, t) == K.promise[t].value_ \/ K.promise[t].exception_

TokenInit ==
    /\ \E n \in {uring_event_loop_ctor.next_token, (2 ^ TokenWidth) - 1} :
          loop = [uring_event_loop_ctor EXCEPT !.next_token = n]
    /\ frame = [h \in Handles |-> NewFrame]
    /\ pc = "idle"
    /\ run_result = nullopt
    /\ wait_until = nullopt
    /\ events = <<>>
    /\ stop_pc = "idle"
    /\ front = 0
    /\ now = 0
    /\ sleeper = [i \in Sleepers |-> NewSleeper]
    /\ timerfd = nullopt
    /\ spurious = 0
    /\ co = NewTask
    /\ sock = NewSocket
    /\ qw = NewWriter
    /\ rs = NewResolver
    /\ ufd = NewFds
    /\ twin = NewTwin
    /\ tk = NewCoroutines

TokenNext ==
    \/ \E h \in Handles : Spawn(h)
    \/ RunCall
    \/ LoopThread
    \/ WaitEvents
    \/ Tick

TokenSpec == TokenInit /\ [][TokenNext]_vars

\* C36: the token allocate_token would hand out next is not 0, is not a key
\* of inflight_polls and is not the wake token, however many tokens were
\* handed out before
C36_AllocatedTokenIsFresh ==
    loop.backend = "uring" =>
        \E a \in {allocate_token(loop)} :
           /\ a.token # 0
           /\ a.token \notin DOMAIN loop.inflight_polls
           /\ a.token # loop.wake_token

\* ---------------------------------------------------------------------------
\* completions that arrive late
\* ---------------------------------------------------------------------------
\* the kernel completes a poll of a descriptor at a moment of its own, while
\* the loop thread is anywhere in run(): the completion waits in the
\* completion queue for the next reactor wait
PollCompletes ==
    /\ loop.backend = "uring"
    /\ pc \notin {"idle", "returned"}
    /\ \E p \in {q \in loop.polls : q.fd # WakeFd} :
          loop' = [loop EXCEPT !.polls = @ \ {p},
                               !.cq = Append(@, [user_data |-> p.token, result |-> 1])]
    /\ UNCHANGED <<frame, pc, run_result, wait_until, events, stop_pc, front, now,
                   sleeper, timerfd, spurious, co, sock, qw, rs, ufd, twin, tk>>

LateNext ==
    \/ \E h \in Handles : Spawn(h)
    \/ RunCall
    \/ LoopThread
    \/ WaitEvents
    \/ Tick
    \/ PollCompletes

LateSpec == RerunInit /\ [][LateNext]_vars

Tokens == 0..((2 ^ TokenWidth) - 1)
CompletionResults == {1, -ECANCELED, -EBADF}

\* no parked registration stores the token, and it is not the wake token
Stale(L, token) ==
    /\ token # L.wake_token
    /\ \A sl \in Slots : Parked(L, sl[1], sl[2]) => RegOf(L, sl[1], sl[2]).token # token

\* nothing a frame can observe differs
SameWaiters(L1, L) ==
    /\ L1.waiters = L.waiters
    /\ L1.ready_queue = L.ready_queue
    /\ L1.wait_results = L.wait_results
    /\ L1.pending_waiter_count = L.pending_waiter_count
    /\ L1.timed_waiter_count = L.timed_waiter_count
    /\ L1.loop_error = L.loop_error

\* a completion with a stale token changes nothing, also when the in-flight
\* map still had an entry for the token that names the slot sl
DropsStale(L, token, sl) ==
    \A result \in CompletionResults :
       \A M \in {L.inflight_polls,
                 Put(L.inflight_polls, token, [fd |-> sl[1], readable |-> sl[2]])} :
          SameWaiters(process_completion([L EXCEPT !.inflight_polls = M],
                                         [user_data |-> token, result |-> result]), L)

\* C35: in the uring loop, whenever run() is blocked in the reactor wait, a
\* completion whose token is not the token stored in a parked registration
\* (the completion of a poll whose wait timed out, was rolled back or was
\* resolved before) would change no registration, queue no frame and store
\* no result if the wait returned it; a reactor wait queues a frame only if the
\* batch holds a completion with the token of the frame's registration, and
\* leaves every registration whose token is not in the batch as it was.
C35_LateCompletionIsDropped ==
    /\ []((loop.backend = "uring" /\ pc = "wait") =>
            \A token \in Tokens : \A sl \in Slots :
               Stale(loop, token) => DropsStale(loop, token, sl))
    /\ [][(loop.backend = "uring" /\ pc = "wait" /\ pc' = "top") =>
            /\ \A h \in Handles :
                  (InSeq(loop'.ready_queue, h) /\ ~InSeq(loop.ready_queue, h)) =>
                     \E sl \in Slots :
                        /\ Parked(loop, sl[1], sl[2])
                        /\ RegOf(loop, sl[1], sl[2]).handle = h
                        /\ \E i \in DOMAIN events' :
                              events'[i].user_data = RegOf(loop, sl[1], sl[2]).token
            /\ \A sl \in Slots :
                  (/\ Parked(loop, sl[1], sl[2])
                   /\ \A i \in DOMAIN events' :
                         events'[i].user_data # RegOf(loop, sl[1], sl[2]).token) =>
                     /\ Parked(loop', sl[1], sl[2])
                     /\ RegOf(loop', sl[1], sl[2]) = RegOf(loop, sl[1], sl[2])]_vars

\* the only frame timed out of its first wait and waits again; the reactor
\* wait that followed returned the cancellation of the first poll, a token
\* no registration stores, and the frame is still parked
C35_Witness ==
    /\ loop.backend = "uring" /\ pc = "top"
    /\ frame[1].st = "awaiting" /\ frame[1].ops = 2
    /\ frame[2].st = "unspawned"
    /\ Parked(loop, frame[1].aw.fd, frame[1].aw.readable)
    /\ RegOf(loop, frame[1].aw.fd, frame[1].aw.readable).handle = 1
    /\ \E i \in DOMAIN events :
          /\ events[i].user_data \notin {0, loop.wake_token}
          /\ events[i].result = -ECANCELED
          /\ Stale(loop, events[i].user_data)

\* ---------------------------------------------------------------------------
\* expiry when the ready queue never empties
\* ---------------------------------------------------------------------------
NoneExpired(L, t) ==
    \A sl \in Slots : Parked(L, sl[1], sl[2]) => ~Expired(RegOf(L, sl[1], sl[2]), t)

\* C37: every pass of run() that resumes a frame, and every turn of the outer
\* loop, ends with no registration whose deadline has passed: each waiter that
\* had expired by then is off the waiter map and its frame is on the ready
\* queue with the registration's timeout error, whether or not the ready queue
\* ever becomes empty.
C37_ExpiredWithinOneResume ==
    [][((pc = "resume" /\ pc' # pc /\ front # 0 /\ frame[front].st # "done")
         \/ (pc = "top" /\ pc' # pc /\ ~loop.stop_requested)) =>
          /\ loop'.loop_error = 0 => NoneExpired(loop', now)
          /\ \A sl \in Slots :
                (Parked(loop, sl[1], sl[2]) /\ Expired(RegOf(loop, sl[1], sl[2]), now)) =>
                   \E reg \in {RegOf(loop, sl[1], sl[2])} :
                      /\ InSeq(loop'.ready_queue, reg.handle)
                      /\ reg.handle \in DOMAIN loop'.wait_results
                      /\ loop'.wait_results[reg.handle] = reg.timeout_error]_vars

\* run() has not blocked yet: the second frame re-queued itself through a wait
\* with a zero timeout, and the pass that resumed it expired the first frame's
\* timed wait behind it
C37_Witness ==
    /\ pc = "drain" /\ wait_until = nullopt /\ now >= 1
    /\ loop.ready_queue = <<2, 1>>
    /\ frame[1].st = "awaiting" /\ frame[1].ops = 1 /\ frame[1].aw.timeout # nullopt
    /\ frame[1].aw.timeout >= 1
    /\ frame[2].st = "awaiting" /\ frame[2].aw.timeout = 0
    /\ 1 \in DOMAIN loop.wait_results /\ loop.wait_results[1] = ETIMEDOUT
    /\ 2 \in DOMAIN loop.wait_results /\ loop.wait_results[2] = ECANCELED
    /\ ~Parked(loop, frame[1].aw.fd, frame[1].aw.readable)

\* ---------------------------------------------------------------------------
\* counters and the waiter map
\* ---------------------------------------------------------------------------
ParkedSlots(L) == {sl \in Slots : Parked(L, sl[1], sl[2])}
LiveRoots == {h \in Handles : frame[h].st \notin {"unspawned", "done"}}

CountersMatch ==
    /\ loop.pending_waiter_count = Cardinality(ParkedSlots(loop))
    /\ loop.timed_waiter_count = Cardinality(TimedSlots(loop))
    /\ loop.active_task_count = Cardinality(LiveRoots)

NoEmptySlot ==
    \A fd \in DOMAIN loop.waiters :
       loop.waiters[fd].readable.handle # 0 \/ loop.waiters[fd].writable.handle # 0

\* C39: between loop steps pending_waiter_count is the number of parked
\* registrations, timed_waiter_count the number of those that carry a
\* deadline, active_task_count the number of spawned root frames that have
\* not reached their final suspend, and no slot of the waiter map is without
\* a registration.
C39_CountersAndSlots ==
    CountersMatch /\ NoEmptySlot

\* ---------------------------------------------------------------------------
\* the in-flight map of the uring loop
\* ---------------------------------------------------------------------------
\* C40: in the uring loop inflight_polls maps a token to (fd, direction)
\* exactly when the registration of that direction of fd is parked with that
\* token, so the map has one entry per parked registration.
C40_InflightMatchesRegistrations ==
    loop.backend = "uring" =>
        /\ \A token \in DOMAIN loop.inflight_polls :
              \E c \in {loop.inflight_polls[token]} :
                 /\ Parked(loop, c.fd, c.readable)
                 /\ RegOf(loop, c.fd, c.readable).token = token
        /\ \A sl \in ParkedSlots(loop) :
              \E reg \in {RegOf(loop, sl[1], sl[2])} :
                 /\ reg.token \in DOMAIN loop.inflight_polls
                 /\ loop.inflight_polls[reg.token] = [fd |-> sl[1], readable |-> sl[2]]
        /\ Cardinality(DOMAIN loop.inflight_polls) = loop.pending_waiter_count

\* a timed wait of one frame expired and its entry left the map while the
\* other frame's poll is still in flight
C40_Witness ==
    /\ loop.backend = "uring"
    /\ Cardinality(DOMAIN loop.inflight_polls) = 1
    /\ loop.pending_waiter_count = 1
    /\ \E h \in Handles :
          /\ h \in DOMAIN loop.wait_results
          /\ loop.wait_results[h] = TimeoutErrorOf(h)
          /\ InSeq(loop.ready_queue, h)
          /\ frame[h].aw.timeout # nullopt /\ frame[h].aw.timeout >= 1

====
